---- MODULE Spec2Model ----
(***************************************************************************)
(* Work distribution and lease control of Scribe (backend/routers).        *)
(* The shared Google Sheet (the ledger) is one header row plus data rows;  *)
(* every server process has its own in-memory AppState.                    *)
(***************************************************************************)
EXTENDS Integers, Sequences, FiniteSets, TLC

VARIABLES
    sheet_headers,          \* row 1 of the worksheet: sequence of column names
    sheet_rows,             \* data rows of the worksheet, in sheet order
    worksheet,              \* per process: state.worksheet is set
    DATASET_QUEUES,         \* per process: dataset name -> list of DOIs
    ANNOTATED_ITEMS,        \* per process: set of DOIs
    INCOMPLETE_ANNOTATIONS, \* per process: DOIs of the partial-annotation map
    ACTIVE_FILTERS,         \* per process: dataset name -> matching DOIs
    papers_index,           \* per dataset: the DOIs of its index, in listing order
    dataset_file,           \* the lines of one corpus file (JSON Lines)
    db,                     \* the SQLite index of that corpus file
    inflight,               \* per request thread: the request it serves, where it
                            \* stands in the handler, and the handler's locals
    startup,                \* app.state of main.py and the position of the
                            \* background startup task
    now,                    \* time.time(), whole seconds
    nticks,                 \* number of clock steps taken
    last,                   \* the last request and its HTTP outcome
    reasons                 \* history: <<filter active, detail>> of every
                            \* get_next_paper that found no candidate

vars == <<sheet_headers, sheet_rows, worksheet, DATASET_QUEUES, ANNOTATED_ITEMS,
          INCOMPLETE_ANNOTATIONS, ACTIVE_FILTERS, papers_index, dataset_file, db,
          inflight, startup, now, nticks, last, reasons>>

sheetVars == <<sheet_headers, sheet_rows>>
memVars == <<DATASET_QUEUES, ANNOTATED_ITEMS, INCOMPLETE_ANNOTATIONS, ACTIVE_FILTERS>>

-----------------------------------------------------------------------------
(* Bounds and the fixed environment *)

MaxTicks == 2
MaxRows == 3
\* the longest list a submission builds for the Queue
MaxQueue == 3

Procs == {"p1", "p2"}
\* annotator names as clients send them: non-empty, not 'unknown', and without
\* surrounding whitespace, so that .strip() of a lock cell gives the name back
Annotators == {"alice", "bob"}
Fields == {"f1", "f2"}

LOCK_TIMEOUT_SECONDS == 7200

\* The instants at which the clock is read: 0, then one second before the
\* lease TTL has passed, then second by second.
Instant(n) == IF n = 0 THEN 0 ELSE LOCK_TIMEOUT_SECONDS - 2 + n

Range(s) == {s[i] : i \in DOMAIN s}

\* state.AVAILABLE_DATASETS after dataset discovery
AVAILABLE_DATASETS == DOMAIN papers_index

Dois == UNION {Range(papers_index[d]) : d \in AVAILABLE_DATASETS}

\* the corpus a DOI belongs to
DatasetOf(doi) == CHOOSE d \in AVAILABLE_DATASETS : doi \in Range(papers_index[d])

\* open_access_pdf of the listing starts with 'http'
HasPdf(doi) == doi # "k2"

\* the queries a client sends: empty, blank, plain, padded, without a match,
\* and one FTS5 cannot parse (an unbalanced quote)
Queries == {"", " ", "alpha", " alpha ", "zzz", "\""}

strip_None(query) == query

\* str.strip() of a query
strip(query) ==
    CASE query = " " -> ""
      [] query = " alpha " -> "alpha"
      [] OTHER -> query

\* the templates a client sends along: none, or one whose field labelled
\* 'Alpha study' carries the keyword list ['beta']
Templates == {"none", "alpha study"}

\* the query set_filter hands to the search
final_fts_query(query, template) ==
    IF template = "alpha study" /\ strip(query) = "alpha" THEN "\"beta\""
    ELSE strip(query)

\* the exception the MATCH statement raises, "" if none
MatchError(query) == IF query = "\"" THEN "sqlite3.Error" ELSE ""

\* the keys of the rows the MATCH statement selects
Match(dataset, query) ==
    CASE query = "alpha" -> Range(papers_index[dataset]) \cap {"k1"}
      [] query = "\"beta\"" -> Range(papers_index[dataset]) \cap {"k2"}
      [] OTHER -> {}

search_papers_by_keyword_All(dataset, query, db_path_exists) ==
    IF ~db_path_exists THEN {}
    ELSE IF MatchError(query) # "" THEN Range(papers_index[dataset])
    ELSE Match(dataset, query)

search_papers_by_keyword(dataset, query, db_path_exists) ==
    IF ~db_path_exists THEN {}
    ELSE IF MatchError(query) # "" THEN {}
    ELSE Match(dataset, query)

-----------------------------------------------------------------------------
(* The worksheet *)

BaseHeaders == <<"doi", "title", "dataset", "annotator">>
LockHeaders == <<"lock_annotator", "lock_timestamp">>

EmptyAnn == [f \in Fields |-> ""]

\* One data row; a cell of a column the header lacks is empty.
Row(doi, dataset, annotator, lock_annotator, lock_timestamp, ann) ==
    [doi |-> doi, title |-> "t", dataset |-> dataset, annotator |-> annotator,
     lock_annotator |-> lock_annotator, lock_timestamp |-> lock_timestamp,
     ann |-> ann]

\* worksheet.find(doi, in_column=doi_col): first matching row, 0 if none
Find(rows, doi) ==
    IF \E i \in DOMAIN rows : rows[i].doi = doi
    THEN CHOOSE i \in DOMAIN rows :
            /\ rows[i].doi = doi
            /\ \A j \in DOMAIN rows : rows[j].doi = doi => i <= j
    ELSE 0

\* worksheet.delete_rows(i)
DeleteRow(rows, i) ==
    [j \in 1..(Len(rows) - 1) |-> IF j < i THEN rows[j] ELSE rows[j + 1]]

\* get_human_readable_timestamp(): the clock, to the second, as a cell value
get_human_readable_timestamp == <<now>>

\* datetime.strptime(ts_str, ...).timestamp() of a non-empty cell
ParseTimestamp(cell) == cell[1]

\* A request and its outcome: the HTTP status, the detail text, the ledger
\* call whose exception the detail quotes, and what the handler found: the
\* lock cells of the row of doi (get_next_paper, submit_annotation) and the
\* Queue of the dataset (skip_paper).
Resp(op, dataset, doi, status, detail, e, held, queue) ==
    [op |-> op, dataset |-> dataset, doi |-> doi, status |-> status,
     detail |-> detail, e |-> e, held |-> held, queue |-> queue, query |-> "",
     message |-> ""]

Plain(op, detail) == Resp(op, "", "", 200, detail, "", <<>>, <<>>)

\* the lock cells of the first row of doi, <<>> if it has no row
LockCells(rows, doi) ==
    IF Find(rows, doi) = 0 THEN <<>>
    ELSE <<rows[Find(rows, doi)].lock_annotator, rows[Find(rows, doi)].lock_timestamp>>

\* state.DATASET_QUEUES.get(dataset, [])
QueueOf(p, dataset) ==
    IF dataset \in DOMAIN DATASET_QUEUES[p] THEN DATASET_QUEUES[p][dataset] ELSE <<>>

-----------------------------------------------------------------------------
(* The SQLite index of a corpus file *)

\* the three tables, empty
EmptyTables == [papers_index |-> <<>>, doi_offsets |-> <<>>, paper_text_fts |-> <<>>]

\* no database file at get_db_path(dataset_name); mtime is how
\* db_path.stat().st_mtime stands to dataset_path.stat().st_mtime ("older",
\* "equal" or "newer"): the two mtimes enter the code through their comparison
\* only
NoDb == [exists |-> FALSE, mtime |-> "older", tables |-> EmptyTables]

-----------------------------------------------------------------------------
(* Request threads and the startup task *)

\* the threads of the worker pool that serve the def handlers
Threads == {"t1", "t2"}

\* a thread that serves no request
Idle == [op |-> "idle"]

NoRequests == [t \in Threads |-> Idle]

\* app.state as main.py sets it at import (ready_event clear, no error), the
\* startup task not yet launched
NotStarted ==
    [pc |-> "created", ready_event |-> FALSE, startup_error |-> "None",
     startup_message |-> "Initializing..."]

-----------------------------------------------------------------------------
\* the indexed corpora of the deployments that are checked
OneKey == [d \in {"d1"} |-> <<"k1">>]
OneCorpus == [d \in {"d1"} |-> <<"k1", "k2">>]
TwoCorpora == [d \in {"d1", "d2"} |-> IF d = "d1" THEN <<"k1", "k2", "k3">> ELSE <<"k4">>]

\* two corpus files that both hold the record of k1
Overlapping == [d \in {"d1", "d2"} |-> IF d = "d1" THEN <<"k1", "k2">> ELSE <<"k1">>]

InitWith(index) ==
    /\ papers_index = index
    /\ dataset_file = <<>>
    /\ db = NoDb
    /\ inflight = NoRequests
    /\ startup = NotStarted
    /\ sheet_headers \in {<<>>, BaseHeaders \o LockHeaders}
    /\ sheet_rows = <<>>
    /\ worksheet = [p \in Procs |-> FALSE]
    /\ DATASET_QUEUES = [p \in Procs |-> [d \in {} |-> <<>>]]
    /\ ANNOTATED_ITEMS = [p \in Procs |-> {}]
    /\ INCOMPLETE_ANNOTATIONS = [p \in Procs |-> {}]
    /\ ACTIVE_FILTERS = [p \in Procs |-> [d \in {} |-> {}]]
    /\ now = 0
    /\ nticks = 0
    /\ last = Plain("none", "")
    /\ reasons = {}

Init == InitWith(OneCorpus)

\* time passes
Tick ==
    /\ nticks < MaxTicks
    /\ now' = Instant(nticks + 1)
    /\ nticks' = nticks + 1
    /\ UNCHANGED <<sheetVars, worksheet, memVars, papers_index, inflight, startup, dataset_file, db, last, reasons>>

\* POST /connect-to-sheet
connect_to_sheet(p) ==
    /\ ~worksheet[p]
    /\ worksheet' = [worksheet EXCEPT ![p] = TRUE]
    /\ last' = Plain("connect_to_sheet", "")
    /\ UNCHANGED <<sheetVars, memVars, papers_index, inflight, startup, dataset_file, db, now, nticks, reasons>>

\* dict[k] = v and del dict[k]
Put(f, k, v) == [x \in (DOMAIN f) \cup {k} |-> IF x = k THEN v ELSE f[x]]
Del(f, k) == [x \in (DOMAIN f) \ {k} |-> f[x]]

\* all orderings of a finite set
Perms(S) ==
    {q \in [1..Cardinality(S) -> S] : \A i, j \in DOMAIN q : q[i] = q[j] => i = j}

\* the keys load_dataset keeps for the resume part, in index order
incomplete_queue(p, dataset) ==
    SelectSeq(papers_index[dataset], LAMBDA k : k \in INCOMPLETE_ANNOTATIONS[p])

\* the fresh part that keeps the keys of ANNOTATED_ITEMS
new_paper_queue_All(p, dataset) ==
    {k \in Range(papers_index[dataset]) : k # "" /\ k \notin INCOMPLETE_ANNOTATIONS[p]}

\* the keys load_dataset keeps for the fresh part
new_paper_queue(p, dataset) ==
    {k \in Range(papers_index[dataset]) :
        k # "" /\ k \notin INCOMPLETE_ANNOTATIONS[p] /\ k \notin ANNOTATED_ITEMS[p]}

\* the queues random.shuffle / random.sample can produce
final_queues(p, dataset, prioritize_incomplete) ==
    IF prioritize_incomplete
    THEN {incomplete_queue(p, dataset) \o s : s \in Perms(new_paper_queue(p, dataset))}
    ELSE Perms(Range(incomplete_queue(p, dataset)) \cup new_paper_queue(p, dataset))

\* a name LoadRequest.dataset can carry that is no file of the data directory
MissingDatasets == {"d9"}

\* the load that drops the filters of every corpus
load_dataset_Reset(p, dataset, prioritize_incomplete) ==
    IF dataset \notin AVAILABLE_DATASETS
    THEN /\ last' = Resp("load_dataset", "", "", 404, "not found on server", "", <<>>, <<>>)
         /\ UNCHANGED <<sheetVars, worksheet, memVars, papers_index, inflight, startup,
                        dataset_file, db, now, nticks, reasons>>
    ELSE /\ \E q \in final_queues(p, dataset, prioritize_incomplete) :
               DATASET_QUEUES' = [DATASET_QUEUES EXCEPT ![p] = Put(@, dataset, q)]
         /\ ACTIVE_FILTERS' = [ACTIVE_FILTERS EXCEPT ![p] = [d \in {} |-> {}]]
         /\ last' = Plain("load_dataset", "")
         /\ UNCHANGED <<sheetVars, worksheet, ANNOTATED_ITEMS, INCOMPLETE_ANNOTATIONS,
                        papers_index, inflight, startup, dataset_file, db, now, nticks,
                        reasons>>

\* POST /load-dataset
load_dataset(p, dataset, prioritize_incomplete) ==
    IF dataset \notin AVAILABLE_DATASETS
    THEN /\ last' = Resp("load_dataset", "", "", 404, "not found on server", "", <<>>, <<>>)
         /\ UNCHANGED <<sheetVars, worksheet, memVars, papers_index, inflight, startup,
                        dataset_file, db, now, nticks, reasons>>
    ELSE /\ \E q \in final_queues(p, dataset, prioritize_incomplete) :
               DATASET_QUEUES' = [DATASET_QUEUES EXCEPT ![p] = Put(@, dataset, q)]
         /\ ACTIVE_FILTERS' = [ACTIVE_FILTERS EXCEPT ![p] = Del(@, dataset)]
         /\ last' = Plain("load_dataset", "")
         /\ UNCHANGED <<sheetVars, worksheet, ANNOTATED_ITEMS, INCOMPLETE_ANNOTATIONS,
                        papers_index, inflight, startup, dataset_file, db, now, nticks,
                        reasons>>

\* POST /api/filter/set
set_filter(p, dataset, query, template, db_path_exists) ==
    /\ dataset \in AVAILABLE_DATASETS
    /\ ACTIVE_FILTERS' =
          [ACTIVE_FILTERS EXCEPT ![p] =
              IF strip(query) = "" THEN Del(@, dataset)
              ELSE Put(@, dataset,
                       search_papers_by_keyword(dataset, final_fts_query(query, template),
                                                db_path_exists))]
    /\ last' = [Resp("set_filter", dataset, "", 200,
                     IF strip(query) = "" THEN "cleared" ELSE "success",
                     IF strip(query) = "" THEN ""
                     ELSE IF ~db_path_exists THEN "no database"
                     ELSE MatchError(final_fts_query(query, template)),
                     <<>>, <<>>)
                EXCEPT !.query = query]
    /\ UNCHANGED <<sheetVars, worksheet, DATASET_QUEUES, ANNOTATED_ITEMS,
                   INCOMPLETE_ANNOTATIONS, papers_index, inflight, startup, dataset_file, db, now, nticks, reasons>>

\* POST /api/filter/clear
clear_filter(p, dataset) ==
    /\ ACTIVE_FILTERS' = [ACTIVE_FILTERS EXCEPT ![p] = Del(@, dataset)]
    /\ last' = Plain("clear_filter",
                     IF dataset \in DOMAIN ACTIVE_FILTERS[p] THEN "success" ELSE "noop")
    /\ UNCHANGED <<sheetVars, worksheet, DATASET_QUEUES, ANNOTATED_ITEMS,
                   INCOMPLETE_ANNOTATIONS, papers_index, inflight, startup, dataset_file, db, now, nticks, reasons>>

-----------------------------------------------------------------------------
(* get_next_paper *)

\* the ledger calls of get_next_paper that can raise, and the record fetch
GetNextFailPoints ==
    {"none", "get_all_values", "update_headers", "fetch", "find",
     "update_cell_1", "update_cell_2", "append_row"}

\* the lease test that takes every lease for the caller's own
IsLockedByOther_Never(r, annotator) ==
    /\ r.doi # ""
    /\ r.lock_annotator # annotator
    /\ r.lock_annotator = annotator

\* the lease test with the comparison turned around
IsLockedByOther_Stale(r, annotator) ==
    /\ r.doi # ""
    /\ r.lock_annotator # annotator
    /\ r.lock_timestamp # <<>>
    /\ now - ParseTimestamp(r.lock_timestamp) > LOCK_TIMEOUT_SECONDS

\* the lease test that still holds at exactly the TTL
IsLockedByOther_Inclusive(r, annotator) ==
    /\ r.doi # ""
    /\ r.lock_annotator # annotator
    /\ r.lock_timestamp # <<>>
    /\ now - ParseTimestamp(r.lock_timestamp) <= LOCK_TIMEOUT_SECONDS

\* a live lease of somebody else on this row (annotation.py 109-116)
IsLockedByOther(r, annotator) ==
    /\ r.doi # ""
    /\ r.lock_annotator # annotator
    /\ r.lock_timestamp # <<>>
    /\ now - ParseTimestamp(r.lock_timestamp) < LOCK_TIMEOUT_SECONDS

\* annotation.py 103-117
unavailable_dois(p, rows, annotator, skip_doi) ==
    ANNOTATED_ITEMS[p]
      \cup (IF skip_doi # "" THEN {skip_doi} ELSE {})
      \cup {rows[i].doi : i \in {j \in DOMAIN rows : IsLockedByOther(rows[j], annotator)}}

\* the queue walk that takes a filter without matches for no filter
Survives_FallBack(p, dataset, doi, unavailable, pdf_required) ==
    /\ doi \notin unavailable
    /\ (dataset \in DOMAIN ACTIVE_FILTERS[p] /\ ACTIVE_FILTERS[p][dataset] # {})
          => doi \in ACTIVE_FILTERS[p][dataset]
    /\ pdf_required => HasPdf(doi)

\* the three tests of the queue walk (annotation.py 124-126)
Survives(p, dataset, doi, unavailable, pdf_required) ==
    /\ doi \notin unavailable
    /\ dataset \in DOMAIN ACTIVE_FILTERS[p] => doi \in ACTIVE_FILTERS[p][dataset]
    /\ pdf_required => HasPdf(doi)

\* the queue walk that keeps the last surviving entry
candidate_paper_info_Last(p, dataset, unavailable, pdf_required) ==
    LET q == DATASET_QUEUES[p][dataset]
        ok == {i \in DOMAIN q : Survives(p, dataset, q[i], unavailable, pdf_required)}
    IN  IF ok = {} THEN 0 ELSE CHOOSE i \in ok : \A j \in ok : i >= j

\* position of the first surviving queue entry, 0 if none
candidate_paper_info(p, dataset, unavailable, pdf_required) ==
    LET q == DATASET_QUEUES[p][dataset]
        ok == {i \in DOMAIN q : Survives(p, dataset, q[i], unavailable, pdf_required)}
    IN  IF ok = {} THEN 0 ELSE CHOOSE i \in ok : \A j \in ok : i <= j

\* the lease write (annotation.py 138-153): rows afterwards and whether it raised
\* the lease write that also puts the caller into the annotator cell
acquire_lock_Claim(rows, doi, dataset, annotator, fail) ==
    LET i == Find(rows, doi)
    IN  IF i # 0
        THEN [rows |-> [rows EXCEPT ![i].lock_annotator = annotator,
                                    ![i].lock_timestamp = get_human_readable_timestamp,
                                    ![i].annotator = annotator],
              ok |-> TRUE]
        ELSE [rows |-> Append(rows, Row(doi, dataset, annotator, annotator,
                                        get_human_readable_timestamp, EmptyAnn)),
              ok |-> TRUE]

\* the lease write that leaves the timestamp of an existing row alone
acquire_lock_Keep(rows, doi, dataset, annotator, fail) ==
    LET i == Find(rows, doi)
    IN  IF i # 0
        THEN [rows |-> [rows EXCEPT ![i].lock_annotator = annotator], ok |-> TRUE]
        ELSE [rows |-> Append(rows, Row(doi, dataset, "", annotator,
                                        get_human_readable_timestamp, EmptyAnn)),
              ok |-> TRUE]

acquire_lock(rows, doi, dataset, annotator, fail) ==
    LET i == Find(rows, doi)
        ts == get_human_readable_timestamp
    IN  IF fail = "find" THEN [rows |-> rows, ok |-> FALSE]
        ELSE IF i # 0
        THEN IF fail = "update_cell_1" THEN [rows |-> rows, ok |-> FALSE]
             ELSE IF fail = "update_cell_2"
             THEN [rows |-> [rows EXCEPT ![i].lock_annotator = annotator], ok |-> FALSE]
             ELSE [rows |-> [rows EXCEPT ![i].lock_annotator = annotator,
                                         ![i].lock_timestamp = ts],
                   ok |-> TRUE]
        ELSE IF fail = "append_row" THEN [rows |-> rows, ok |-> FALSE]
             ELSE [rows |-> Append(rows, Row(doi, dataset, "", annotator, ts, EmptyAnn)),
                   ok |-> TRUE]

\* the lease write put before the fetch of the record
fetch_and_lock_Late(rows, doi, dataset, annotator, fail) ==
    [rows |-> acquire_lock(rows, doi, dataset, annotator, fail).rows,
     ok |-> acquire_lock(rows, doi, dataset, annotator, fail).ok,
     fetched |-> fail # "fetch"]

\* get_paper_by_doi_from_file, then the lease write (annotation.py 133-153): a
\* fetch that returns None (no offset for the key, or a line that does not
\* parse) ends the call before the ledger is written
fetch_and_lock(rows, doi, dataset, annotator, fail) ==
    IF fail = "fetch" THEN [rows |-> rows, ok |-> FALSE, fetched |-> FALSE]
    ELSE [rows |-> acquire_lock(rows, doi, dataset, annotator, fail).rows,
          ok |-> acquire_lock(rows, doi, dataset, annotator, fail).ok,
          fetched |-> TRUE]

\* the detail of the 404 raised before the ledger is read (annotation.py 88-89)
QueueEmptyDetail == "Dataset queue is empty or not loaded."

Out(status, detail, e, doi, headers, rows) ==
    [status |-> status, detail |-> detail, e |-> e, doi |-> doi,
     headers |-> headers, rows |-> rows]

\* worksheet.update('A1', [row]): the cells of row 1 from column A on; cells to
\* the right of the written ones stay
UpdateA1(cur, row) == row \o SubSeq(cur, Len(row) + 1, Len(cur))

\* get_next_paper on what get_all_values returned (read_headers, read_rows):
\* outcome and the worksheet it leaves; the header write and the lease write
\* go to the worksheet as it is when they are made
get_next_paper_from(p, dataset, annotator, pdf_required, skip_doi, fail, read_headers, read_rows) ==
    IF fail = "get_all_values" \/ (read_headers = <<>> /\ fail = "update_headers")
    THEN Out(500, "A spreadsheet error occurred", fail, "", sheet_headers, sheet_rows)
    ELSE
      LET headers == IF read_headers = <<>> THEN BaseHeaders \o LockHeaders
                     ELSE read_headers
          written == IF read_headers = <<>> THEN UpdateA1(sheet_headers, headers)
                     ELSE sheet_headers
      IN  IF ~({"doi", "lock_annotator", "lock_timestamp"} \subseteq Range(headers))
          THEN Out(500, "A spreadsheet error occurred", "ValueError", "",
                   written, sheet_rows)
          ELSE
            LET unavailable == unavailable_dois(p, read_rows, annotator, skip_doi)
                c == candidate_paper_info(p, dataset, unavailable, pdf_required)
            IN  IF c = 0
                THEN Out(404, "No available papers found in the queue.", "", "",
                         written, sheet_rows)
                ELSE
                  LET candidate_doi == DATASET_QUEUES[p][dataset][c]
                      w == fetch_and_lock(sheet_rows, candidate_doi, dataset, annotator, fail)
                  IN  IF ~w.fetched
                      THEN Out(500, "Could not retrieve full data", "", "",
                               written, w.rows)
                      ELSE IF ~w.ok
                      THEN Out(500, "Could not acquire lock for paper in Google Sheet.",
                               fail, "", written, w.rows)
                      ELSE Out(200, "", "", candidate_doi, written, w.rows)

\* the status and detail with which get_next_paper refuses a corpus in the
\* queues of a process (annotation.py 88-89), <<>> if it does not
queue_refusal(queues, dataset) ==
    IF dataset \notin DOMAIN queues \/ queues[dataset] = <<>>
    THEN <<404, QueueEmptyDetail>>
    ELSE <<>>

\* GET /get-next-paper: outcome and the worksheet it leaves
get_next_paper_out(p, dataset, annotator, pdf_required, skip_doi, fail) ==
    IF ~worksheet[p]
    THEN Out(400, "No Google Sheet is currently connected.", "", "",
             sheet_headers, sheet_rows)
    ELSE IF annotator = "" \/ annotator = "unknown"
    THEN Out(400, "Annotator name must be set in Settings.", "", "",
             sheet_headers, sheet_rows)
    ELSE IF queue_refusal(DATASET_QUEUES[p], dataset) # <<>>
    THEN Out(queue_refusal(DATASET_QUEUES[p], dataset)[1],
             queue_refusal(DATASET_QUEUES[p], dataset)[2], "", "",
             sheet_headers, sheet_rows)
    ELSE get_next_paper_from(p, dataset, annotator, pdf_required, skip_doi, fail,
                             sheet_headers, sheet_rows)

get_next_paper(p, dataset, annotator, pdf_required, skip_doi, fail) ==
    LET out == get_next_paper_out(p, dataset, annotator, pdf_required, skip_doi, fail)
    IN  /\ sheet_headers' = out.headers
        /\ sheet_rows' = out.rows
        /\ last' = Resp("get_next_paper", dataset, out.doi, out.status, out.detail, out.e,
                        LockCells(sheet_rows, out.doi), <<>>)
        /\ reasons' = IF out.status = 404 /\ out.detail # QueueEmptyDetail
                       THEN reasons \cup {<<dataset \in DOMAIN ACTIVE_FILTERS[p], out.detail>>}
                       ELSE reasons
        /\ UNCHANGED <<worksheet, memVars, papers_index, inflight, startup, dataset_file, db, now, nticks>>

-----------------------------------------------------------------------------
(* clear_lock, submit_annotation, skip_paper *)

\* the ledger calls of clear_lock that can raise
ClearLockFailPoints == {"none", "row_values", "find", "update_cell_1", "update_cell_2"}

\* the release that blanks the holder and leaves the timestamp
clear_lock_Half(headers, rows, doi, cfail) ==
    LET i == Find(rows, doi)
    IN  IF i = 0 THEN rows ELSE [rows EXCEPT ![i].lock_annotator = ""]

\* clear_lock(doi): the rows it leaves; every exception is swallowed
clear_lock(headers, rows, doi, cfail) ==
    LET i == Find(rows, doi)
    IN  IF cfail = "row_values" THEN rows
        ELSE IF "doi" \notin Range(headers) THEN rows
        ELSE IF cfail = "find" \/ i = 0 THEN rows
        ELSE IF ~({"lock_annotator", "lock_timestamp"} \subseteq Range(headers)) THEN rows
        ELSE IF cfail = "update_cell_1" THEN rows
        ELSE IF cfail = "update_cell_2" THEN [rows EXCEPT ![i].lock_annotator = ""]
        ELSE [rows EXCEPT ![i].lock_annotator = "", ![i].lock_timestamp = <<>>]

\* one call of clear_lock(doi) by process p (annotation.py 19-38): it returns
\* nothing and raises nothing, whether or not state.worksheet is set
ClearLock(p, doi, cfail) ==
    /\ sheet_rows' = IF worksheet[p] THEN clear_lock(sheet_headers, sheet_rows, doi, cfail)
                     ELSE sheet_rows
    /\ last' = Resp("clear_lock", "", doi, 200, "", cfail, LockCells(sheet_rows, doi), <<>>)
    /\ UNCHANGED <<sheet_headers, worksheet, memVars, papers_index, inflight, startup, dataset_file, db, now, nticks, reasons>>

\* the ledger calls of submit_annotation that can raise
SubmitFailPoints == {"none", "row_values", "update_headers", "find", "write"}

\* which calls raise during one submission: one of its own, and one of clear_lock
SubmitFails ==
    {<<m, "none">> : m \in SubmitFailPoints}
      \cup {<<m, c>> : m \in {"none", "find"}, c \in ClearLockFailPoints}

\* the header row submit_annotation leaves (annotation.py 183-200)
submit_headers(headers, annotations) ==
    LET start == IF headers = <<>> THEN BaseHeaders ELSE headers
        missing == SelectSeq(BaseHeaders \o annotations.order,
                             LAMBDA k : k \notin Range(start))
    IN  start \o missing

\* the cells of the submitted row (annotation.py 209-214)
row_values(doi, dataset, annotator, annotations) ==
    Row(doi, dataset, annotator, "", <<>>,
        [f \in Fields |-> IF f \in Range(annotations.order) THEN annotations.value ELSE ""])

\* the row write that appends whether or not the key has a row
write_row_Append(rows, doi, newrow, find_raises, write_raises) ==
    IF write_raises THEN rows ELSE Append(rows, newrow)

\* the row write that lands although the call raised
write_row_Lands(rows, doi, newrow, find_raises, write_raises) ==
    LET i == IF find_raises THEN 0 ELSE Find(rows, doi)
    IN  IF i # 0 THEN [rows EXCEPT ![i] = newrow] ELSE Append(rows, newrow)

\* worksheet.update / append_row of the submitted row (annotation.py 202-219):
\* find raising is taken as "no row"; a write that raises writes nothing
write_row(rows, doi, newrow, find_raises, write_raises) ==
    LET i == IF find_raises THEN 0 ELSE Find(rows, doi)
    IN  IF write_raises THEN rows
        ELSE IF i # 0 THEN [rows EXCEPT ![i] = newrow]
        ELSE Append(rows, newrow)

\* the Queue without the submitted DOI (annotation.py 223-224)
remove_from_queue(queues, dataset, doi) ==
    IF dataset \in DOMAIN queues
    THEN [queues EXCEPT ![dataset] = SelectSeq(@, LAMBDA k : k # doi)]
    ELSE queues

\* POST /submit-annotation
submit_annotation(p, doi, dataset, annotator, annotations, fails) ==
    LET mfail == fails[1]
        cfail == fails[2]
        headers == submit_headers(sheet_headers, annotations)
        written == write_row(sheet_rows, doi,
                             row_values(doi, dataset, annotator, annotations),
                             mfail = "find", mfail = "write")
        held == LockCells(sheet_rows, doi)
    IN  IF ~worksheet[p]
        THEN /\ last' = Resp("submit_annotation", dataset, doi, 400,
                             "No Google Sheet is currently connected.", "", held, <<>>)
             /\ UNCHANGED <<sheetVars, memVars>>
        ELSE IF mfail = "row_values" \/ (mfail = "update_headers" /\ headers # sheet_headers)
        THEN /\ last' = Resp("submit_annotation", dataset, doi, 500,
                             "Failed to write to Google Sheet", mfail, held, <<>>)
             /\ UNCHANGED <<sheetVars, memVars>>
        ELSE IF mfail = "write"
        THEN /\ last' = Resp("submit_annotation", dataset, doi, 500,
                             "Failed to write to Google Sheet", mfail, held, <<>>)
             /\ sheet_headers' = headers
             /\ sheet_rows' = written
             /\ UNCHANGED memVars
        ELSE /\ Len(written) <= MaxRows
             /\ sheet_headers' = headers
             /\ sheet_rows' = clear_lock(headers, written, doi, cfail)
             /\ DATASET_QUEUES' =
                   [DATASET_QUEUES EXCEPT ![p] = remove_from_queue(@, dataset, doi)]
             /\ ANNOTATED_ITEMS' = [ANNOTATED_ITEMS EXCEPT ![p] = @ \cup {doi}]
             /\ INCOMPLETE_ANNOTATIONS' = [INCOMPLETE_ANNOTATIONS EXCEPT ![p] = @ \ {doi}]
             /\ last' = Resp("submit_annotation", dataset, doi, 200, "success", "",
                             held, <<>>)
             /\ UNCHANGED ACTIVE_FILTERS

SubmitAnnotation(p, doi, dataset, annotator, annotations, fails) ==
    /\ submit_annotation(p, doi, dataset, annotator, annotations, fails)
    /\ UNCHANGED <<worksheet, papers_index, inflight, startup, dataset_file, db, now, nticks, reasons>>

\* the ledger calls of skip_paper that can raise
SkipFailPoints == {"none", "row_values", "find", "cell", "delete_rows"}

SkipFails ==
    {<<m, "none">> : m \in SkipFailPoints} \cup {<<"none", c>> : c \in ClearLockFailPoints}

\* the ledger part of skip_paper (annotation.py 268-282); every exception is swallowed
skip_rows(headers, rows, doi, fails) ==
    LET i == Find(rows, doi)
    IN  IF fails[1] = "row_values" THEN rows
        ELSE IF ~({"doi", "annotator"} \subseteq Range(headers)) THEN rows
        ELSE IF fails[1] = "find" \/ i = 0 THEN rows
        ELSE IF fails[1] = "cell" THEN rows
        ELSE IF rows[i].annotator = ""
        THEN IF fails[1] = "delete_rows" THEN rows ELSE DeleteRow(rows, i)
        ELSE clear_lock(headers, rows, doi, fails[2])

\* the move that pops the entry and never appends it
move_to_tail_Pop(queue, doi) == SelectSeq(queue, LAMBDA k : k # doi)

\* queue.remove(paper_to_move); queue.append(paper_to_move) (annotation.py 284-289)
move_to_tail(queue, doi) ==
    IF doi \in Range(queue)
    THEN Append(SelectSeq(queue, LAMBDA k : k # doi), doi)
    ELSE queue

\* POST /skip-paper
skip_paper(p, doi, dataset, fails) ==
    IF ~worksheet[p]
    THEN /\ last' = Resp("skip_paper", dataset, doi, 400,
                         "No Google Sheet is currently connected.", "",
                         <<>>, QueueOf(p, dataset))
         /\ UNCHANGED <<sheetVars, memVars>>
    ELSE /\ sheet_rows' = skip_rows(sheet_headers, sheet_rows, doi, fails)
         /\ DATASET_QUEUES' =
               [DATASET_QUEUES EXCEPT ![p] =
                   IF dataset \in DOMAIN @
                   THEN [@ EXCEPT ![dataset] = move_to_tail(@, doi)]
                   ELSE @]
         /\ last' = Resp("skip_paper", dataset, doi, 200, "success", "",
                         <<>>, QueueOf(p, dataset))
         /\ UNCHANGED <<sheet_headers, ANNOTATED_ITEMS, INCOMPLETE_ANNOTATIONS,
                        ACTIVE_FILTERS>>

SkipPaper(p, doi, dataset, fails) ==
    /\ skip_paper(p, doi, dataset, fails)
    /\ UNCHANGED <<worksheet, papers_index, inflight, startup, dataset_file, db, now, nticks, reasons>>

-----------------------------------------------------------------------------
(* set_lock *)

\* worksheet.find(annotator, in_column=lock_annotator_col): first matching row, 0 if none
FindLock(rows, annotator) ==
    IF \E i \in DOMAIN rows : rows[i].lock_annotator = annotator
    THEN CHOOSE i \in DOMAIN rows :
            /\ rows[i].lock_annotator = annotator
            /\ \A j \in DOMAIN rows : rows[j].lock_annotator = annotator => i <= j
    ELSE 0

\* the ledger calls of set_lock that can raise
SetLockFailPoints ==
    {"none", "row_values", "find_1", "find_2", "cell", "delete_rows",
     "batch_update_1", "batch_update_2", "append_row"}

\* batch_update of the two lock cells of row i; a row below the last data row
\* comes into being with every other cell empty
write_lock(rows, i, annotator, ts) ==
    IF i \in DOMAIN rows
    THEN [rows EXCEPT ![i].lock_annotator = annotator, ![i].lock_timestamp = ts]
    ELSE Append(rows, [doi |-> "", title |-> "", dataset |-> "", annotator |-> "",
                       lock_annotator |-> annotator, lock_timestamp |-> ts,
                       ann |-> EmptyAnn])

\* the target row after a delete: the index is moved up only when the deleted
\* row was above it (dashboard.py 391-392)
shifted_target(new, old) == IF new # 0 /\ new > old THEN new - 1 ELSE new

\* the previous lease of the holder that is always given up by blanking
release_previous_Blank(rows, old, new, tfail) ==
    IF old = 0 THEN [rows |-> rows, target |-> new, ok |-> TRUE]
    ELSE [rows |-> [rows EXCEPT ![old].lock_annotator = "", ![old].lock_timestamp = <<>>],
          target |-> new, ok |-> TRUE]

\* what set_lock does with the row old that carries the holder's name
\* (dashboard.py 385-400): rows afterwards, the target row, whether it went through
release_previous(rows, old, new, tfail) ==
    IF old = 0 THEN [rows |-> rows, target |-> new, ok |-> TRUE]
    ELSE IF tfail = "cell" THEN [rows |-> rows, target |-> new, ok |-> FALSE]
    ELSE IF rows[old].annotator = ""
    THEN IF tfail = "delete_rows" THEN [rows |-> rows, target |-> new, ok |-> FALSE]
         ELSE [rows |-> DeleteRow(rows, old), target |-> shifted_target(new, old),
               ok |-> TRUE]
    ELSE IF tfail = "batch_update_1" THEN [rows |-> rows, target |-> new, ok |-> FALSE]
         ELSE [rows |-> [rows EXCEPT ![old].lock_annotator = "",
                                     ![old].lock_timestamp = <<>>],
               target |-> new, ok |-> TRUE]

SetLockError == "Failed to set lock in Google Sheet"

\* POST /api/set-lock: outcome and the rows it leaves
set_lock_out(p, doi, annotator, dataset, tfail) ==
    IF ~worksheet[p]
    THEN Out(400, "No active Google Sheet connection.", "", "", sheet_headers, sheet_rows)
    ELSE IF tfail = "row_values"
    THEN Out(500, SetLockError, tfail, "", sheet_headers, sheet_rows)
    ELSE IF ~({"doi", "annotator", "lock_annotator", "lock_timestamp"}
                 \subseteq Range(sheet_headers))
    THEN Out(500, SetLockError, "ValueError", "", sheet_headers, sheet_rows)
    ELSE IF tfail \in {"find_1", "find_2"}
    THEN Out(500, SetLockError, tfail, "", sheet_headers, sheet_rows)
    ELSE
      LET old == FindLock(sheet_rows, annotator)
          new == Find(sheet_rows, doi)
          r == release_previous(sheet_rows, old, new, tfail)
          ts == get_human_readable_timestamp
      IN  IF ~r.ok THEN Out(500, SetLockError, tfail, "", sheet_headers, r.rows)
          ELSE IF r.target # 0
          THEN IF tfail = "batch_update_2"
               THEN Out(500, SetLockError, tfail, "", sheet_headers, r.rows)
               ELSE Out(200, "success", "", doi, sheet_headers,
                        write_lock(r.rows, r.target, annotator, ts))
          ELSE IF dataset \notin AVAILABLE_DATASETS
          THEN Out(500, SetLockError, "KeyError", "", sheet_headers, r.rows)
          ELSE IF doi \notin Range(papers_index[dataset])
          THEN Out(500, SetLockError, "404", "", sheet_headers, r.rows)
          ELSE IF tfail = "append_row"
          THEN Out(500, SetLockError, tfail, "", sheet_headers, r.rows)
          ELSE Out(200, "success", "", doi, sheet_headers,
                   Append(r.rows, Row(doi, dataset, "", annotator, ts, EmptyAnn)))

\* last.held of a set_lock: the rows that carried the holder's name and the key
set_lock(p, doi, annotator, dataset, tfail) ==
    LET out == set_lock_out(p, doi, annotator, dataset, tfail)
    IN  /\ Len(out.rows) <= MaxRows
        /\ sheet_rows' = out.rows
        /\ last' = Resp("set_lock", dataset, doi, out.status, out.detail, tfail,
                        <<FindLock(sheet_rows, annotator), Find(sheet_rows, doi)>>, <<>>)
        /\ UNCHANGED <<sheet_headers, worksheet, memVars, papers_index, inflight, startup, dataset_file, db, now, nticks,
                       reasons>>

-----------------------------------------------------------------------------
(* index_dataset_if_needed, get_paper_by_doi_from_file *)

MaxLines == 3

\* a line of the corpus file: bytes that are not UTF-8, text that is not JSON,
\* a JSON array, or a JSON object with its 'doi' (empty: absent) and 'title'
Line(kind, doi, title) == [kind |-> kind, doi |-> doi, title |-> title]

Lines ==
    {Line("bytes", "", ""), Line("invalid", "", ""), Line("array", "", ""),
     Line("object", "", "t1"), Line("object", "a", "t1"), Line("object", "a", "t2"),
     Line("object", "b", "t1")}

\* the natural keys of the lines
LineKeys == {l.doi : l \in Lines} \ {""}

\* len(line) in bytes, the newline included
LineLen(l) ==
    IF l.kind = "bytes" THEN 2
    ELSE IF l.kind = "invalid" THEN 1
    ELSE IF l.kind = "array" THEN 3
    ELSE IF l.title = "t1" THEN 4 ELSE 5

\* f.tell() before line i is read
RECURSIVE Offset(_, _)
Offset(file, i) == IF i = 1 THEN 0 ELSE Offset(file, i - 1) + LineLen(file[i - 1])

\* json.loads(line): raises for bytes that do not decode and for text that is
\* not JSON, returns a list for an array and a dict for an object
json_loads(l) ==
    IF l.kind \in {"bytes", "invalid"} THEN [raised |-> TRUE, type |-> "", value |-> <<>>]
    ELSE IF l.kind = "array" THEN [raised |-> FALSE, type |-> "list", value |-> <<>>]
    ELSE [raised |-> FALSE, type |-> "dict",
          value |-> [doi |-> l.doi, title |-> l.title]]

\* the three inserts of one line (database.py 131-152): a key the listing has
\* is left as it is in all three tables
insert_or_ignore(t, doi, title, offset) ==
    IF doi \in DOMAIN t.papers_index THEN t
    ELSE [papers_index |-> Put(t.papers_index, doi, [title |-> title, byte_offset |-> offset]),
          doi_offsets |-> Put(t.doi_offsets, doi, offset),
          paper_text_fts |-> Append(t.paper_text_fts, <<doi, title>>)]

\* the scan from line i on (database.py 111-157) over tables t; readline of
\* line `at` raises (0: no read raises). raised: an exception left the loop
RECURSIVE scan(_, _, _, _)
scan(file, i, t, at) ==
    IF i > Len(file) THEN [raised |-> FALSE, tables |-> t]
    ELSE IF at = i THEN [raised |-> TRUE, tables |-> t]
    ELSE LET paper == json_loads(file[i])
         IN  IF paper.raised THEN scan(file, i + 1, t, at)
             ELSE IF paper.type # "dict" THEN [raised |-> TRUE, tables |-> t]
             ELSE IF paper.value.doi = "" THEN scan(file, i + 1, t, at)
             ELSE scan(file, i + 1,
                       insert_or_ignore(t, paper.value.doi, paper.value.title,
                                        Offset(file, i)),
                       at)

\* _index_rowcount(db_path)
index_rowcount(d) == IF d.exists THEN Cardinality(DOMAIN d.tables.papers_index) ELSE 0

\* the staleness check that accepts an index as old as the corpus
up_to_date_Equal(d) == d.exists /\ d.mtime # "older" /\ index_rowcount(d) > 0

\* the staleness check (database.py 82-90): the build is not run again
up_to_date(d) == d.exists /\ d.mtime = "newer" /\ index_rowcount(d) > 0

\* init_dataset_db(db_path): the two keyed tables are kept, the search table
\* is dropped and made again, and this is committed
init_dataset_db(d) ==
    [exists |-> TRUE, mtime |-> "newer",
     tables |-> [d.tables EXCEPT !.paper_text_fts = <<>>]]

\* what the staleness check found: the database file and its row count
stat(d) ==
    <<IF d.exists THEN d.mtime ELSE "absent",
      IF index_rowcount(d) > 0 THEN "rows" ELSE "no rows">>

\* index_dataset_if_needed(dataset_path), with readline raising at line `at`
index_build(at) ==
    /\ at \in 0..Len(dataset_file)
    /\ IF up_to_date(db)
       THEN /\ db' = db
            /\ last' = Resp("index_dataset_if_needed", "", "", 200, "up to date",
                            IF at = 0 THEN "none" ELSE "readline", <<>>, stat(db))
       ELSE LET opened == init_dataset_db(db)
                s == scan(dataset_file, 1, EmptyTables, at)
            IN  /\ db' = IF s.raised THEN opened
                         ELSE [opened EXCEPT !.tables = s.tables]
                /\ last' = Resp("index_dataset_if_needed", "", "", 200,
                                IF s.raised THEN "rollback" ELSE "commit",
                                IF at = 0 THEN "none" ELSE "readline", <<>>, stat(db))

\* a call of index_dataset_if_needed outside the startup task
index_dataset_if_needed(at) ==
    /\ index_build(at)
    /\ UNCHANGED <<sheetVars, worksheet, memVars, papers_index, inflight, startup, dataset_file, now, nticks,
                   reasons>>

\* f.seek(offset); f.readline(): the line that starts at offset, if one does
LineAt(file, offset) ==
    {file[i] : i \in {j \in DOMAIN file : Offset(file, j) = offset}}

\* get_paper_by_doi_from_file(dataset_path, doi): <<>> for None, else <<record>>
paper_by_doi(doi) ==
    IF ~db.exists THEN <<>>
    ELSE IF doi \notin DOMAIN db.tables.doi_offsets THEN <<>>
    ELSE LET at == LineAt(dataset_file, db.tables.doi_offsets[doi])
         IN  IF at = {} THEN <<>>
             ELSE LET paper == json_loads(CHOOSE l \in at : TRUE)
                  IN  IF paper.raised THEN <<>> ELSE <<paper.value>>

get_paper_by_doi_from_file(doi) ==
    /\ last' = Resp("get_paper_by_doi_from_file", "", doi, 200, "", "",
                    paper_by_doi(doi), <<>>)
    /\ UNCHANGED <<sheetVars, worksheet, memVars, papers_index, inflight, startup, dataset_file, db, now,
                   nticks, reasons>>

\* the corpus file grows by one line; its mtime is then later than the
\* index's, or the same where the two writes fall into one tick of the file
\* system's clock
write_dataset(l, m) ==
    /\ Len(dataset_file) < MaxLines
    /\ dataset_file' = Append(dataset_file, l)
    /\ db' = [db EXCEPT !.mtime = IF db.exists THEN m ELSE "older"]
    /\ last' = Plain("write_dataset", "")
    /\ UNCHANGED <<sheetVars, worksheet, memVars, papers_index, inflight, startup, now, nticks, reasons>>

-----------------------------------------------------------------------------
(* submit_annotation and get_next_paper served by concurrent threads: every
   ledger call is a step of its own, and other threads run between the calls *)

\* a submission that fills in the other annotation field
Filled2 == [order |-> <<"f2">>, value |-> "x"]

\* submit_annotation up to headers = worksheet.row_values(1) (annotation.py 178-183)
submit_read_headers(t, p, doi, dataset, annotator, annotations) ==
    /\ inflight[t] = Idle
    /\ worksheet[p]
    /\ inflight' = [inflight EXCEPT ![t] =
          [op |-> "submit_annotation", pc |-> "headers_read", p |-> p,
           headers |-> sheet_headers, doi |-> doi, dataset |-> dataset,
           annotator |-> annotator, annotations |-> annotations]]
    /\ UNCHANGED <<sheetVars, worksheet, memVars, papers_index, dataset_file, db, startup,
                   now, nticks, last, reasons>>

\* the header row is completed from the copy read and written back from A1
\* (annotation.py 184-200)
submit_update_headers(t) ==
    /\ inflight[t].op = "submit_annotation" /\ inflight[t].pc = "headers_read"
    /\ LET l == inflight[t]
           new_headers == submit_headers(l.headers, l.annotations)
       IN  /\ sheet_headers' = IF new_headers # l.headers
                               THEN UpdateA1(sheet_headers, new_headers)
                               ELSE sheet_headers
           /\ inflight' = [inflight EXCEPT ![t] =
                 [l EXCEPT !.pc = "headers_written", !.headers = new_headers]]
    /\ UNCHANGED <<sheet_rows, worksheet, memVars, papers_index, dataset_file, db, startup,
                   now, nticks, last, reasons>>

\* the row is written, the lock released, the Queue and the sets updated
\* (annotation.py 202-231)
submit_write_row(t) ==
    /\ inflight[t].op = "submit_annotation" /\ inflight[t].pc = "headers_written"
    /\ LET l == inflight[t]
           written == write_row(sheet_rows, l.doi,
                                row_values(l.doi, l.dataset, l.annotator, l.annotations),
                                FALSE, FALSE)
       IN  /\ Len(written) <= MaxRows
           /\ sheet_rows' = clear_lock(sheet_headers, written, l.doi, "none")
           /\ DATASET_QUEUES' =
                 [DATASET_QUEUES EXCEPT ![l.p] = remove_from_queue(@, l.dataset, l.doi)]
           /\ ANNOTATED_ITEMS' = [ANNOTATED_ITEMS EXCEPT ![l.p] = @ \cup {l.doi}]
           /\ INCOMPLETE_ANNOTATIONS' = [INCOMPLETE_ANNOTATIONS EXCEPT ![l.p] = @ \ {l.doi}]
           /\ last' = Resp("submit_annotation", l.dataset, l.doi, 200, "success", "",
                           LockCells(sheet_rows, l.doi), <<>>)
    /\ inflight' = [inflight EXCEPT ![t] = Idle]
    /\ UNCHANGED <<sheet_headers, worksheet, ACTIVE_FILTERS, papers_index, dataset_file, db,
                   startup, now, nticks, reasons>>

\* get_next_paper up to all_sheet_values = worksheet.get_all_values()
\* (annotation.py 84-92); a request refused before that is over in this step
get_next_read(t, p, dataset, annotator) ==
    /\ inflight[t] = Idle
    /\ IF \/ ~worksheet[p]
          \/ dataset \notin DOMAIN DATASET_QUEUES[p]
          \/ DATASET_QUEUES[p][dataset] = <<>>
       THEN get_next_paper(p, dataset, annotator, FALSE, "", "none")
       ELSE /\ inflight' = [inflight EXCEPT ![t] =
                  [op |-> "get_next_paper", pc |-> "values_read", p |-> p,
                   headers |-> sheet_headers, rows |-> sheet_rows,
                   dataset |-> dataset, annotator |-> annotator, doi |-> "",
                   cell |-> 0]]
            /\ UNCHANGED <<sheetVars, worksheet, memVars, papers_index, dataset_file, db,
                           startup, now, nticks, last, reasons>>

\* get_next_paper from the header check to cell = worksheet.find(candidate_doi)
\* (annotation.py 93-138) on the values read; a request without a candidate is
\* over in this step
get_next_find(t) ==
    /\ inflight[t].op = "get_next_paper" /\ inflight[t].pc = "values_read"
    /\ LET l == inflight[t]
           out == get_next_paper_from(l.p, l.dataset, l.annotator, FALSE, "", "none",
                                      l.headers, l.rows)
       IN  /\ sheet_headers' = out.headers
           /\ IF out.status = 200
              THEN /\ inflight' = [inflight EXCEPT ![t].pc = "found",
                                                   ![t].doi = out.doi,
                                                   ![t].cell = Find(sheet_rows, out.doi)]
                   /\ UNCHANGED <<last, reasons>>
              ELSE /\ inflight' = [inflight EXCEPT ![t] = Idle]
                   /\ last' = Resp("get_next_paper", l.dataset, out.doi, out.status,
                                   out.detail, out.e, LockCells(sheet_rows, out.doi), <<>>)
                   /\ reasons' = IF out.status = 404
                                  THEN reasons \cup {<<l.dataset \in DOMAIN ACTIVE_FILTERS[l.p],
                                                       out.detail>>}
                                  ELSE reasons
    /\ UNCHANGED <<sheet_rows, worksheet, memVars, papers_index, dataset_file, db, startup,
                   now, nticks>>

\* the lease write of get_next_paper (annotation.py 139-161): the two lock
\* cells of the row found, or a placeholder row appended if none was found
get_next_write(t) ==
    /\ inflight[t].op = "get_next_paper" /\ inflight[t].pc = "found"
    /\ LET l == inflight[t]
           ts == get_human_readable_timestamp
       IN  /\ sheet_rows' =
                 IF l.cell # 0 THEN write_lock(sheet_rows, l.cell, l.annotator, ts)
                 ELSE Append(sheet_rows, Row(l.doi, l.dataset, "", l.annotator, ts, EmptyAnn))
           /\ Len(sheet_rows') <= MaxRows
           /\ last' = Resp("get_next_paper", l.dataset, l.doi, 200, "", "",
                           LockCells(sheet_rows, l.doi), <<>>)
    /\ inflight' = [inflight EXCEPT ![t] = Idle]
    /\ UNCHANGED <<sheet_headers, worksheet, memVars, papers_index, dataset_file, db, startup,
                   now, nticks, reasons>>

-----------------------------------------------------------------------------
(* The Queue of a corpus under concurrent submit_annotation and skip_paper:
   DATASET_QUEUES[dataset] names a list object; skip_paper changes the object in
   place, submit_annotation builds a new list and binds the name to it. The
   interpreter can switch threads between any two of the steps below. *)

\* the list object thread t works on: the one the Queue is bound to, or one
\* the Queue was bound to when t took its reference
ListOf(t) ==
    IF inflight[t].ref = "shared"
    THEN DATASET_QUEUES[inflight[t].p][inflight[t].dataset]
    ELSE inflight[t].own

\* list.remove(k): the first occurrence goes
RemoveFirst(q, k) ==
    LET i == CHOOSE j \in DOMAIN q : q[j] = k /\ \A h \in 1..(j - 1) : q[h] # k
    IN  [j \in 1..(Len(q) - 1) |-> IF j < i THEN q[j] ELSE q[j + 1]]

\* thread t has changed its list object to q
Mutate(t, q) ==
    IF inflight[t].ref = "shared"
    THEN /\ DATASET_QUEUES' = [DATASET_QUEUES EXCEPT
                                 ![inflight[t].p][inflight[t].dataset] = q]
         /\ inflight' = [inflight EXCEPT ![t].pc = "removed"]
    ELSE /\ DATASET_QUEUES' = DATASET_QUEUES
         /\ inflight' = [inflight EXCEPT ![t].pc = "removed", ![t].own = q]

\* skip_paper up to queue = state.DATASET_QUEUES[request.dataset]
\* (annotation.py 264-285)
skip_begin(t, p, doi, dataset) ==
    /\ inflight[t] = Idle
    /\ IF \/ ~worksheet[p]
          \/ dataset \notin DOMAIN DATASET_QUEUES[p]
          \/ DATASET_QUEUES[p][dataset] = <<>>
       THEN /\ skip_paper(p, doi, dataset, <<"none", "none">>)
            /\ UNCHANGED inflight
       ELSE /\ sheet_rows' = skip_rows(sheet_headers, sheet_rows, doi, <<"none", "none">>)
            /\ inflight' = [inflight EXCEPT ![t] =
                  [op |-> "skip_paper", pc |-> "scan", p |-> p, doi |-> doi,
                   dataset |-> dataset, i |-> 1, acc |-> <<>>, ref |-> "shared",
                   own |-> <<>>]]
            /\ UNCHANGED <<sheet_headers, memVars, last>>
    /\ UNCHANGED <<worksheet, papers_index, dataset_file, db, startup, now, nticks, reasons>>

\* one step of next(p for i, p in enumerate(queue) if ...) (annotation.py 286):
\* the entry at the iterator's index is looked at
skip_scan(t) ==
    /\ inflight[t].op = "skip_paper" /\ inflight[t].pc = "scan"
    /\ LET l == inflight[t]
       IN  IF l.i > Len(ListOf(t))
           THEN /\ inflight' = [inflight EXCEPT ![t] = Idle]
                /\ last' = Resp("skip_paper", l.dataset, l.doi, 200, "success", "",
                                <<>>, <<>>)
           ELSE /\ inflight' = [inflight EXCEPT
                                  ![t].pc = IF ListOf(t)[l.i] = l.doi THEN "found" ELSE "scan",
                                  ![t].i = l.i + 1]
                /\ last' = last
    /\ UNCHANGED <<sheetVars, worksheet, memVars, papers_index, dataset_file, db, startup,
                   now, nticks, reasons>>

\* queue.remove(paper_to_move) (annotation.py 288); ValueError if the entry
\* is no longer in the list, which nothing in skip_paper catches
skip_remove(t) ==
    /\ inflight[t].op = "skip_paper" /\ inflight[t].pc = "found"
    /\ LET l == inflight[t]
       IN  IF l.doi \in Range(ListOf(t))
           THEN /\ Mutate(t, RemoveFirst(ListOf(t), l.doi))
                /\ last' = last
           ELSE /\ inflight' = [inflight EXCEPT ![t] = Idle]
                /\ DATASET_QUEUES' = DATASET_QUEUES
                /\ last' = Resp("skip_paper", l.dataset, l.doi, 500,
                                "Internal Server Error", "ValueError", <<>>, <<>>)
    /\ UNCHANGED <<sheetVars, worksheet, ANNOTATED_ITEMS, INCOMPLETE_ANNOTATIONS,
                   ACTIVE_FILTERS, papers_index, dataset_file, db, startup, now, nticks,
                   reasons>>

\* queue.append(paper_to_move) and the return (annotation.py 289-291)
skip_append(t) ==
    /\ inflight[t].op = "skip_paper" /\ inflight[t].pc = "removed"
    /\ LET l == inflight[t]
       IN  /\ DATASET_QUEUES' =
                 IF l.ref = "shared"
                 THEN [DATASET_QUEUES EXCEPT ![l.p][l.dataset] = Append(@, l.doi)]
                 ELSE DATASET_QUEUES
           /\ last' = Resp("skip_paper", l.dataset, l.doi, 200, "success", "",
                           <<>>, <<>>)
    /\ inflight' = [inflight EXCEPT ![t] = Idle]
    /\ UNCHANGED <<sheetVars, worksheet, ANNOTATED_ITEMS, INCOMPLETE_ANNOTATIONS,
                   ACTIVE_FILTERS, papers_index, dataset_file, db, startup, now, nticks,
                   reasons>>

\* submit_annotation up to the list comprehension over the Queue
\* (annotation.py 163-223)
submit_begin(t, p, doi, dataset, annotator, annotations) ==
    /\ inflight[t] = Idle
    /\ IF ~worksheet[p] \/ dataset \notin DOMAIN DATASET_QUEUES[p]
       THEN /\ submit_annotation(p, doi, dataset, annotator, annotations, <<"none", "none">>)
            /\ UNCHANGED inflight
       ELSE LET headers == submit_headers(sheet_headers, annotations)
                written == write_row(sheet_rows, doi,
                                     row_values(doi, dataset, annotator, annotations),
                                     FALSE, FALSE)
            IN  /\ Len(written) <= MaxRows
                /\ sheet_headers' = headers
                /\ sheet_rows' = clear_lock(headers, written, doi, "none")
                /\ inflight' = [inflight EXCEPT ![t] =
                      [op |-> "submit_annotation", pc |-> "filter", p |-> p, doi |-> doi,
                       dataset |-> dataset, i |-> 1, acc |-> <<>>, ref |-> "shared",
                       own |-> <<>>]]
                /\ UNCHANGED <<memVars, last>>
    /\ UNCHANGED <<worksheet, papers_index, dataset_file, db, startup, now, nticks, reasons>>

\* one step of [p for p in queue if p.get('doi') != submitted_doi]
\* (annotation.py 224): the entry at the iterator's index is kept or dropped;
\* past the end the new list is bound to the dataset's name and the request
\* ends (225-231). Threads that hold the old list keep it.
submit_filter(t) ==
    /\ inflight[t].op = "submit_annotation" /\ inflight[t].pc = "filter"
    /\ LET l == inflight[t]
       IN  IF l.i <= Len(ListOf(t))
           THEN /\ Len(l.acc) < MaxQueue
                /\ inflight' = [inflight EXCEPT
                                  ![t].acc = IF ListOf(t)[l.i] # l.doi
                                             THEN Append(l.acc, ListOf(t)[l.i]) ELSE l.acc,
                                  ![t].i = l.i + 1]
                /\ UNCHANGED <<memVars, last>>
           ELSE /\ DATASET_QUEUES' = [DATASET_QUEUES EXCEPT ![l.p][l.dataset] = l.acc]
                /\ inflight' =
                      [u \in Threads |->
                          IF u = t THEN Idle
                          ELSE IF inflight[u].op # "idle" /\ inflight[u].ref = "shared"
                          THEN [inflight[u] EXCEPT !.ref = "own",
                                                   !.own = DATASET_QUEUES[l.p][l.dataset]]
                          ELSE inflight[u]]
                /\ ANNOTATED_ITEMS' = [ANNOTATED_ITEMS EXCEPT ![l.p] = @ \cup {l.doi}]
                /\ INCOMPLETE_ANNOTATIONS' =
                      [INCOMPLETE_ANNOTATIONS EXCEPT ![l.p] = @ \ {l.doi}]
                /\ ACTIVE_FILTERS' = ACTIVE_FILTERS
                /\ last' = Resp("submit_annotation", l.dataset, l.doi, 200, "success", "",
                                <<>>, <<>>)
    /\ UNCHANGED <<sheetVars, worksheet, papers_index, dataset_file, db, startup, now, nticks,
                   reasons>>

-----------------------------------------------------------------------------
(* The startup task of main.py and GET /api/status *)

\* the stages of run_startup_tasks in order, and startup_message in each
Stages == <<"env", "dirs", "auth", "discover", "index">>

StageMessage(pc) ==
    CASE pc = "env" -> "Loading environment variables..."
      [] pc = "dirs" -> "Creating required directories..."
      [] pc = "auth" -> "Authenticating with Google Services..."
      [] pc = "discover" -> "Discovering local datasets..."
      [] pc = "index" -> "Indexing dataset 1/1: d1"

\* str(e) of the exceptions a stage can raise: one with a message, and one
\* raised without arguments (MemoryError(), a bare assert)
Messages == {"boom", ""}

\* startup_event: the task is handed to the executor and enters its first stage
startup_event ==
    /\ startup.pc = "created"
    /\ startup' = [startup EXCEPT !.pc = "env", !.startup_message = StageMessage("env")]
    /\ UNCHANGED <<sheetVars, worksheet, memVars, papers_index, inflight, dataset_file, db,
                   now, nticks, last, reasons>>

\* a stage before the index builds ends and the next one begins
startup_advance ==
    /\ \E i \in 1..(Len(Stages) - 1) :
          /\ startup.pc = Stages[i]
          /\ startup' = [startup EXCEPT !.pc = Stages[i + 1],
                                        !.startup_message = StageMessage(Stages[i + 1])]
    /\ UNCHANGED <<sheetVars, worksheet, memVars, papers_index, inflight, dataset_file, db,
                   now, nticks, last, reasons>>

\* index_dataset_if_needed(filepath) of the corpus found, the last statement
\* of the try block
startup_index(at) ==
    /\ startup.pc = "index"
    /\ index_build(at)
    /\ startup' = [startup EXCEPT !.pc = "finally"]
    /\ UNCHANGED <<sheetVars, worksheet, memVars, papers_index, inflight, dataset_file,
                   now, nticks, reasons>>

\* a stage raises e and the except clause records str(e)
startup_raise(message) ==
    /\ startup.pc \in Range(Stages)
    /\ startup' = [startup EXCEPT !.pc = "finally", !.startup_error = message]
    /\ UNCHANGED <<sheetVars, worksheet, memVars, papers_index, inflight, dataset_file, db,
                   now, nticks, last, reasons>>

\* the finally clause: app.state.ready_event.set()
startup_finally ==
    /\ startup.pc = "finally"
    /\ startup' = [startup EXCEPT !.pc = "finished", !.ready_event = TRUE]
    /\ UNCHANGED <<sheetVars, worksheet, memVars, papers_index, inflight, dataset_file, db,
                   now, nticks, last, reasons>>

\* `if app.state.startup_error`: None and the empty string are false
IsTrue(startup_error) == startup_error \notin {"None", ""}

\* the status get_app_status answers in app.state s
app_status(s) ==
    IF ~s.ready_event THEN "starting"
    ELSE IF IsTrue(s.startup_error) THEN "error"
    ELSE "ready"

\* GET /api/status
get_app_status ==
    /\ last' = [Resp("get_app_status", "", "", 200, app_status(startup), "", <<>>, <<>>)
                EXCEPT !.message = CASE app_status(startup) = "starting"
                                          -> startup.startup_message
                                     [] app_status(startup) = "error"
                                          -> startup.startup_error
                                     [] OTHER -> ""]
    /\ UNCHANGED <<sheetVars, worksheet, memVars, papers_index, inflight, startup,
                   dataset_file, db, now, nticks, reasons>>

-----------------------------------------------------------------------------
(* The requests clients send *)

\* the annotation fields of the template, filled in
Filled == [order |-> <<"f1">>, value |-> "x"]

\* a submission names an annotator, or leaves the name empty
Submitters == Annotators \cup {""}

\* what clients ask of the server processes P: which pdf_required and skip_doi
\* they pass, and which ledger calls raise while the request is served
Requests(P, pdfs, skips, gfails, sfails, kfails) ==
    \/ \E p \in P : connect_to_sheet(p)
    \/ \E p \in P, dataset \in AVAILABLE_DATASETS, pr \in BOOLEAN :
          load_dataset(p, dataset, pr)
    \/ \E p \in P, dataset \in AVAILABLE_DATASETS, annotator \in Annotators,
          pdf_required \in pdfs, skip_doi \in skips, fail \in gfails :
          get_next_paper(p, dataset, annotator, pdf_required, skip_doi, fail)
    \/ \E p \in P, doi \in Dois, annotator \in Submitters, fails \in sfails :
          SubmitAnnotation(p, doi, DatasetOf(doi), annotator, Filled, fails)
    \/ \E p \in P, doi \in Dois, dataset \in AVAILABLE_DATASETS, fails \in kfails :
          SkipPaper(p, doi, dataset, fails)

Filtering(P) ==
    \/ \E p \in P, dataset \in AVAILABLE_DATASETS, query \in Queries,
          template \in Templates, db_path_exists \in BOOLEAN :
          set_filter(p, dataset, query, template, db_path_exists)
    \/ \E p \in P, dataset \in AVAILABLE_DATASETS : clear_filter(p, dataset)

NoFail == {"none"}
NoFails == {<<"none", "none">>}

\* one server process, a ledger that answers every call, passing time
Next ==
    \/ Tick
    \/ Requests({"p1"}, {FALSE}, {""}, NoFail, NoFails, NoFails)

Spec == Init /\ [][Next]_vars

\* one server process, a ledger that answers every call, keyword filters
NextFilter ==
    \/ Filtering({"p1"})
    \/ Requests({"p1"}, BOOLEAN, Dois \cup {""}, NoFail, NoFails, NoFails)

SpecFilter == Init /\ [][NextFilter]_vars

\* one server process, two corpora, keyword filters only
NextSearch == Filtering({"p1"})

SpecSearch == InitWith(Overlapping) /\ [][NextSearch]_vars

\* one server process, two corpora that share a key, keyword filters, and
\* loads that name a corpus or a file that is not there
NextReload ==
    \/ connect_to_sheet("p1")
    \/ \E dataset \in AVAILABLE_DATASETS \cup MissingDatasets, pr \in BOOLEAN :
          load_dataset("p1", dataset, pr)
    \/ \E dataset \in AVAILABLE_DATASETS : set_filter("p1", dataset, "alpha", "none", TRUE)
    \/ \E dataset \in AVAILABLE_DATASETS :
          get_next_paper("p1", dataset, "alice", FALSE, "", "none")
    \/ \E dataset \in AVAILABLE_DATASETS : \E doi \in Range(papers_index[dataset]) :
          SubmitAnnotation("p1", doi, dataset, "alice", Filled, <<"none", "none">>)

SpecReload == InitWith(Overlapping) /\ [][NextReload]_vars

\* one server process and one session that works through the Queues: it asks
\* for a paper and submits the key it was handed before it asks again
NextDrain ==
    \/ connect_to_sheet("p1")
    \/ \E dataset \in AVAILABLE_DATASETS, pr \in BOOLEAN : load_dataset("p1", dataset, pr)
    \/ /\ ~(last.op = "get_next_paper" /\ last.status = 200)
       /\ \E dataset \in AVAILABLE_DATASETS :
             get_next_paper("p1", dataset, "alice", FALSE, "", "none")
    \/ /\ last.op = "get_next_paper" /\ last.status = 200
       /\ SubmitAnnotation("p1", last.doi, last.dataset, "alice", Filled, <<"none", "none">>)

\* the session on two corpora that share a key, and on two that share none
SpecDrain == InitWith(Overlapping) /\ [][NextDrain]_vars
SpecDrainApart == InitWith(TwoCorpora) /\ [][NextDrain]_vars

\* one server process and one annotator who sends submissions again
NextRetry ==
    \/ connect_to_sheet("p1")
    \/ \E pr \in BOOLEAN : load_dataset("p1", "d1", pr)
    \/ \E pdf_required \in BOOLEAN :
          get_next_paper("p1", "d1", "alice", pdf_required, "", "none")
    \/ \E doi \in Dois, annotations \in {Filled, Filled2} :
          SubmitAnnotation("p1", doi, "d1", "alice", annotations, <<"none", "none">>)

SpecRetry == Init /\ [][NextRetry]_vars

\* one server process, one key, and a ledger whose calls can raise
NextFaulty ==
    Requests({"p1"}, {FALSE}, {""}, GetNextFailPoints, SubmitFails, SkipFails)

SpecFaulty == InitWith(OneKey) /\ [][NextFaulty]_vars

\* two server processes on one ledger
NextShared ==
    Requests(Procs, {FALSE}, {""}, NoFail, NoFails, NoFails)

SpecShared == InitWith(OneKey) /\ [][NextShared]_vars

\* skips whose ledger part goes through, raises at once, raises at the
\* delete, or raises halfway through clear_lock
QueueSkipFails ==
    {<<"none", "none">>, <<"row_values", "none">>, <<"delete_rows", "none">>,
     <<"none", "update_cell_2">>}

\* set_lock requests whose ledger calls go through, raise at the delete of the
\* placeholder, or raise at the write of the new lease
TransferFails == {"none", "delete_rows", "batch_update_2"}

\* one server process, two annotators, and the dashboard moving leases
NextTransfer ==
    \/ connect_to_sheet("p1")
    \/ \E pr \in BOOLEAN : load_dataset("p1", "d1", pr)
    \/ \E annotator \in Annotators :
          get_next_paper("p1", "d1", annotator, FALSE, "", "none")
    \/ \E doi \in Dois :
          SubmitAnnotation("p1", doi, "d1", "alice", Filled, <<"none", "none">>)
    \/ \E doi \in Dois, annotator \in Annotators, dataset \in AVAILABLE_DATASETS,
          tfail \in TransferFails :
          set_lock("p1", doi, annotator, dataset, tfail)

SpecTransfer == Init /\ [][NextTransfer]_vars

\* a corpus file that grows line by line, builds of its index whose reads
\* can raise, and lookups
NextIndex ==
    \/ \E l \in Lines, m \in {"older", "equal"} : write_dataset(l, m)
    \/ \E at \in 0..MaxLines : index_dataset_if_needed(at)
    \/ \E doi \in LineKeys : get_paper_by_doi_from_file(doi)

SpecIndex == Init /\ [][NextIndex]_vars

\* one server process and one annotator on two corpora that share a key; a
\* submission and a skip name a corpus that holds the key
NextOverlap ==
    \/ connect_to_sheet("p1")
    \/ \E dataset \in AVAILABLE_DATASETS, pr \in BOOLEAN : load_dataset("p1", dataset, pr)
    \/ \E dataset \in AVAILABLE_DATASETS :
          get_next_paper("p1", dataset, "alice", FALSE, "", "none")
    \/ \E dataset \in AVAILABLE_DATASETS : \E doi \in Range(papers_index[dataset]) :
          SubmitAnnotation("p1", doi, dataset, "alice", Filled, <<"none", "none">>)
    \/ \E dataset \in AVAILABLE_DATASETS : \E doi \in Range(papers_index[dataset]) :
          SkipPaper("p1", doi, dataset, <<"none", "none">>)

SpecOverlap == InitWith(Overlapping) /\ [][NextOverlap]_vars

\* load_dataset applied to what a process can know of the ledger: every key is
\* complete (ANNOTATED_ITEMS), has a partial record (INCOMPLETE_ANNOTATIONS,
\* filled by connect_to_sheet of main.py 1135-1145), or has neither
InitLoad ==
    /\ papers_index = TwoCorpora
    /\ dataset_file = <<>>
    /\ db = NoDb
    /\ inflight = NoRequests
    /\ startup = NotStarted
    /\ sheet_headers = BaseHeaders \o LockHeaders
    /\ sheet_rows = <<>>
    /\ worksheet = [p \in Procs |-> p = "p1"]
    /\ DATASET_QUEUES = [p \in Procs |-> [d \in {} |-> <<>>]]
    /\ \E done \in SUBSET Dois : \E partial \in SUBSET (Dois \ done) :
          /\ ANNOTATED_ITEMS = [p \in Procs |-> IF p = "p1" THEN done ELSE {}]
          /\ INCOMPLETE_ANNOTATIONS = [p \in Procs |-> IF p = "p1" THEN partial ELSE {}]
    /\ ACTIVE_FILTERS = [p \in Procs |-> [d \in {} |-> {}]]
    /\ now = 0
    /\ nticks = 0
    /\ last = Plain("none", "")
    /\ reasons = {}

NextLoad ==
    \E dataset \in AVAILABLE_DATASETS, pr \in BOOLEAN : load_dataset("p1", dataset, pr)

SpecLoad == InitLoad /\ [][NextLoad]_vars

\* one server process whose two threads serve submissions and get_next_paper
\* requests of two annotators
NextRace ==
    \/ connect_to_sheet("p1")
    \/ load_dataset("p1", "d1", TRUE)
    \/ \E t \in Threads, annotator \in Annotators : get_next_read(t, "p1", "d1", annotator)
    \/ \E t \in Threads : get_next_find(t)
    \/ \E t \in Threads : get_next_write(t)
    \/ \E t \in Threads, annotations \in {Filled, Filled2} :
          submit_read_headers(t, "p1", "k1", "d1", "alice", annotations)
    \/ \E t \in Threads : submit_update_headers(t)
    \/ \E t \in Threads : submit_write_row(t)

SpecRace == InitWith(OneKey) /\ [][NextRace]_vars

\* the corpus file is written, then the server starts and is polled
NextStartup ==
    \/ \E l \in Lines : startup.pc = "created" /\ write_dataset(l, "older")
    \/ startup_event
    \/ startup_advance
    \/ \E at \in 0..MaxLines : startup_index(at)
    \/ \E message \in Messages : startup_raise(message)
    \/ startup_finally
    \/ get_app_status

SpecStartup == Init /\ [][NextStartup]_vars

\* one server process whose worker threads serve a submission and a skip, or
\* two skips, of one corpus at the same time
NextMutate ==
    \/ connect_to_sheet("p1")
    \/ inflight = NoRequests /\ load_dataset("p1", "d1", FALSE)
    \/ \E doi \in Dois : submit_begin("t1", "p1", doi, "d1", "alice", Filled)
    \/ submit_filter("t1")
    \/ \E t \in Threads, doi \in Dois : skip_begin(t, "p1", doi, "d1")
    \/ \E t \in Threads : skip_scan(t)
    \/ \E t \in Threads : skip_remove(t)
    \/ \E t \in Threads : skip_append(t)

SpecMutate == InitWith(OneCorpus) /\ [][NextMutate]_vars

\* header rows a worksheet can have: none, one without a doi column, one
\* without lock columns, the full one
ReleaseHeaders == {<<>>, <<"title">>, BaseHeaders, BaseHeaders \o LockHeaders}

\* data rows under a header row; a cell of a column the header lacks is empty
ReleaseRows(headers) ==
    {Row(doi, "d1", annotator, lock[1], lock[2], EmptyAnn) :
        doi \in {"k1", "k2"},
        annotator \in (IF "annotator" \in Range(headers) THEN {"", "alice"} ELSE {""}),
        lock \in (IF "lock_annotator" \in Range(headers)
                  THEN {<<"", <<>>>>, <<"alice", <<0>>>>} ELSE {<<"", <<>>>>})}

\* clear_lock applied to the worksheets of fewer than MaxRows rows, connected or not
InitRelease ==
    /\ papers_index = OneCorpus
    /\ dataset_file = <<>>
    /\ db = NoDb
    /\ inflight = NoRequests
    /\ startup = NotStarted
    /\ sheet_headers \in ReleaseHeaders
    /\ sheet_rows \in UNION {[1..n -> ReleaseRows(sheet_headers)] : n \in 0..(MaxRows - 1)}
    /\ worksheet \in {[p \in Procs |-> p = "p1" /\ c] : c \in BOOLEAN}
    /\ DATASET_QUEUES = [p \in Procs |-> [d \in {} |-> <<>>]]
    /\ ANNOTATED_ITEMS = [p \in Procs |-> {}]
    /\ INCOMPLETE_ANNOTATIONS = [p \in Procs |-> {}]
    /\ ACTIVE_FILTERS = [p \in Procs |-> [d \in {} |-> {}]]
    /\ now = 0
    /\ nticks = 0
    /\ last = Plain("none", "")
    /\ reasons = {}

NextRelease ==
    \E doi \in Dois, cfail \in ClearLockFailPoints : ClearLock("p1", doi, cfail)

SpecRelease == InitRelease /\ [][NextRelease]_vars

\* one server process with two corpora, one annotator, skips that can fail
NextQueue ==
    \/ connect_to_sheet("p1")
    \/ \E dataset \in AVAILABLE_DATASETS, pr \in BOOLEAN : load_dataset("p1", dataset, pr)
    \/ \E dataset \in AVAILABLE_DATASETS :
          get_next_paper("p1", dataset, "alice", FALSE, "", "none")
    \/ \E doi \in Dois, dataset \in AVAILABLE_DATASETS, fails \in QueueSkipFails :
          SkipPaper("p1", doi, dataset, fails)

SpecQueue == InitWith(TwoCorpora) /\ [][NextQueue]_vars
-----------------------------------------------------------------------------
(* Properties *)

\* position of a key in a queue, 0 if absent
Pos(q, k) == IF k \in Range(q) THEN CHOOSE i \in DOMAIN q : q[i] = k ELSE 0

\* row r carries a lease of holder h that has not run out
ActiveLeaseOf(r, h) ==
    /\ r.lock_annotator = h
    /\ r.lock_timestamp # <<>>
    /\ now - r.lock_timestamp[1] < 7200

\* C1: once holder A has received key K and its lease is written, a
\* get_next_paper of another holder B does not return K while K's row still
\* carries A's lock and less than 7200 s have passed since the lock timestamp.
C1_MutualExclusion ==
    [][(last'.op = "get_next_paper" /\ last'.status = 200) =>
          \A p \in Procs, dataset \in AVAILABLE_DATASETS, b \in Annotators,
             pdf \in BOOLEAN, skip \in Dois \cup {""}, fail \in GetNextFailPoints :
             get_next_paper(p, dataset, b, pdf, skip, fail)
               => ~\E i \in DOMAIN sheet_rows, a \in Annotators \ {b} :
                     sheet_rows[i].doi = last'.doi /\ ActiveLeaseOf(sheet_rows[i], a)]_vars

\* bob was served k2 from behind k1, which alice holds under a live lease
C1_Witness ==
    /\ last.op = "get_next_paper" /\ last.status = 200 /\ last.held = <<>>
    /\ "d1" \notin DOMAIN ACTIVE_FILTERS["p1"]
    /\ QueueOf("p1", "d1") = <<"k1", "k2">>
    /\ ANNOTATED_ITEMS["p1"] = {}
    /\ last.doi = "k2"
    /\ \E i, j \in DOMAIN sheet_rows :
          /\ sheet_rows[i].doi = "k1" /\ ActiveLeaseOf(sheet_rows[i], "alice")
          /\ sheet_rows[j].doi = "k2" /\ sheet_rows[j].lock_annotator = "bob"
          /\ sheet_rows[j].lock_timestamp = <<now>>

\* C2: a lease of another holder keeps the key out of the selection iff
\* now - lock_timestamp < 7200: when the key heads the Queue and nothing else
\* excludes it, B is not served it before 7200 s have passed, and from
\* 7200 s on B is served it and the lock cells are re-stamped with B and now.
C2_LeaseTimeToLive ==
    [][last'.op = "get_next_paper" =>
        \A p \in Procs, dataset \in AVAILABLE_DATASETS, b \in Annotators,
           pdf \in BOOLEAN, skip \in Dois \cup {""}, i \in DOMAIN sheet_rows :
          ( /\ worksheet[p]
            /\ QueueOf(p, dataset) # <<>>
            /\ QueueOf(p, dataset)[1] = sheet_rows[i].doi
            /\ i = Find(sheet_rows, sheet_rows[i].doi)
            /\ sheet_rows[i].doi \notin ANNOTATED_ITEMS[p] \cup {skip}
            /\ dataset \notin DOMAIN ACTIVE_FILTERS[p]
            /\ pdf => HasPdf(sheet_rows[i].doi)
            /\ sheet_rows[i].lock_annotator \in Annotators \ {b}
            /\ sheet_rows[i].lock_timestamp # <<>>
            /\ get_next_paper(p, dataset, b, pdf, skip, "none") )
          => IF now - sheet_rows[i].lock_timestamp[1] < 7200
             THEN ~(last'.status = 200 /\ last'.doi = sheet_rows[i].doi)
             ELSE /\ last'.status = 200
                  /\ last'.doi = sheet_rows[i].doi
                  /\ sheet_rows'[i].lock_annotator = b
                  /\ sheet_rows'[i].lock_timestamp = <<now>>]_vars

\* bob was served the key alice had locked at 0, exactly 7200 s later
C2_Witness ==
    /\ last.op = "get_next_paper" /\ last.status = 200
    /\ last.held = <<"alice", <<0>>>>
    /\ now = 7200
    /\ LockCells(sheet_rows, last.doi) = <<"bob", <<7200>>>>

\* C3: a key whose submission has succeeded is not returned by any later
\* get_next_paper, whichever server process serves the request.
C3_NeverOfferedAgain ==
    (last.op = "get_next_paper" /\ last.status = 200)
      => last.doi \notin UNION {ANNOTATED_ITEMS[p] : p \in Procs}

\* C4: while a filter without matches is active for a corpus, get_next_paper
\* for that corpus returns no record and writes no lease, and fails with 404
\* whenever the request gets as far as the queue walk; the filter goes away
\* only through set_filter, clear_filter or load_dataset.
C4_FilterExhaustion ==
    [][/\ last'.op = "get_next_paper" =>
          \A p \in Procs, dataset \in AVAILABLE_DATASETS, b \in Annotators,
            pdf \in BOOLEAN, skip \in Dois \cup {""}, fail \in GetNextFailPoints :
            ( /\ dataset \in DOMAIN ACTIVE_FILTERS[p]
              /\ ACTIVE_FILTERS[p][dataset] = {}
              /\ get_next_paper(p, dataset, b, pdf, skip, fail) )
            => /\ last'.status # 200
               /\ last'.doi = ""
               /\ sheet_rows' = sheet_rows
               /\ ( /\ worksheet[p] /\ QueueOf(p, dataset) # <<>> /\ fail = "none"
                    /\ (sheet_headers = <<>> \/ "lock_annotator" \in Range(sheet_headers)) )
                  => last'.status = 404
       /\ ACTIVE_FILTERS' # ACTIVE_FILTERS
            => last'.op \in {"set_filter", "clear_filter", "load_dataset"}]_vars

\* refused under a filter without matches although k1 is free and queued
C4_Witness ==
    /\ last.op = "get_next_paper" /\ last.status = 404
    /\ last.detail # QueueEmptyDetail
    /\ "d1" \in DOMAIN ACTIVE_FILTERS["p1"] /\ ACTIVE_FILTERS["p1"]["d1"] = {}
    /\ QueueOf("p1", "d1") = <<"k1", "k2">>
    /\ ANNOTATED_ITEMS["p1"] = {}
    /\ sheet_rows = <<>>

\* C5: the reason get_next_paper reports when no candidate survives under an
\* active filter is never the reason it reports when no candidate survives
\* with no filter active.
C5_ReasonsDistinguished ==
    \A x, y \in reasons : x[1] # y[1] => x[2] # y[2]

\* the row belongs to nobody and carries no annotation
IsPlaceholder(r) == r.annotator = "" /\ \A f \in Fields : r.ann[f] = ""

\* C6: skip_paper removes the row of a placeholder; a row with annotation
\* data or with an annotator stays and only loses its two lock cells.
C6_SkipSemantics ==
    [][last'.op = "skip_paper" =>
        \A p \in Procs :
          ( /\ worksheet[p]
            /\ Find(sheet_rows, last'.doi) # 0
            /\ {"doi", "annotator", "lock_annotator", "lock_timestamp"}
                  \subseteq Range(sheet_headers)
            /\ SkipPaper(p, last'.doi, last'.dataset, <<"none", "none">>) )
          => LET i == Find(sheet_rows, last'.doi)
             IN  IF IsPlaceholder(sheet_rows[i])
                 THEN sheet_rows' = DeleteRow(sheet_rows, i)
                 ELSE sheet_rows' = [sheet_rows EXCEPT ![i].lock_annotator = "",
                                                        ![i].lock_timestamp = <<>>]]_vars

C8_SubmitEffects ==
    [][(last'.op = "submit_annotation" /\ last'.status = 200) =>
        \A p \in Procs, doi \in Dois, annotator \in Submitters, fails \in SubmitFails :
          SubmitAnnotation(p, doi, DatasetOf(doi), annotator, Filled, fails)
          => LET i == Find(sheet_rows, doi)
             IN  /\ IF i # 0
                    THEN /\ Len(sheet_rows') = Len(sheet_rows)
                         /\ sheet_rows'[i].doi = doi
                         /\ sheet_rows'[i].annotator = annotator
                    ELSE /\ Len(sheet_rows') = Len(sheet_rows) + 1
                         /\ sheet_rows'[Len(sheet_rows')].doi = doi
                         /\ sheet_rows'[Len(sheet_rows')].annotator = annotator
                 /\ \A j \in DOMAIN sheet_rows : j # i => sheet_rows'[j] = sheet_rows[j]
                 /\ doi \notin Range(IF DatasetOf(doi) \in DOMAIN DATASET_QUEUES'[p]
                                     THEN DATASET_QUEUES'[p][DatasetOf(doi)] ELSE <<>>)
                 /\ doi \in ANNOTATED_ITEMS'[p]
                 /\ doi \notin INCOMPLETE_ANNOTATIONS'[p]]_vars

\* C9: after a successful submit_annotation both lock cells of every row of
\* the key are empty, also when clear_lock ran into a ledger error.
C9_SubmitReleasesLease ==
    [][(last'.op = "submit_annotation" /\ last'.status = 200) =>
        \A p \in Procs, doi \in Dois, annotator \in Submitters, fails \in SubmitFails :
          SubmitAnnotation(p, doi, DatasetOf(doi), annotator, Filled, fails)
          => \A i \in DOMAIN sheet_rows' :
                sheet_rows'[i].doi = doi
                  => sheet_rows'[i].lock_annotator = "" /\ sheet_rows'[i].lock_timestamp = <<>>]_vars

\* C10: when the row write of submit_annotation raises, the call fails and
\* the data rows (the lock cells of the key among them), the Queues, the
\* completed set and the partial-annotation map are as before.
C10_FailedSubmitKeepsLease ==
    [][last'.op = "submit_annotation" =>
        \A p \in Procs, doi \in Dois, annotator \in Submitters, fails \in SubmitFails :
          ( /\ worksheet[p]
            /\ fails[1] = "write"
            /\ SubmitAnnotation(p, doi, DatasetOf(doi), annotator, Filled, fails) )
          => /\ last'.status = 500
             /\ sheet_rows' = sheet_rows
             /\ DATASET_QUEUES' = DATASET_QUEUES
             /\ ANNOTATED_ITEMS' = ANNOTATED_ITEMS
             /\ INCOMPLETE_ANNOTATIONS' = INCOMPLETE_ANNOTATIONS]_vars

\* the row write raised while alice held the lease on k1: the call failed
\* and her lease, the Queue and the completed set are as she left them
C10_Witness ==
    /\ last.op = "submit_annotation" /\ last.status = 500 /\ last.e = "write"
    /\ last.doi = "k1"
    /\ last.held = <<"alice", <<0>>>>
    /\ LockCells(sheet_rows, "k1") = <<"alice", <<0>>>>
    /\ QueueOf("p1", "d1") = <<"k1">>
    /\ "k1" \notin ANNOTATED_ITEMS["p1"]

\* the ledger calls of the lease write of get_next_paper (annotation.py 139-149)
LockWriteCalls == {"find", "update_cell_1", "update_cell_2", "append_row"}

\* C11: when get_next_paper has selected and fetched a candidate and a ledger
\* call of the lease write raises, the candidate is still returned to the
\* caller (status 200 with the record) instead of the call failing.
C11_DegradedMode ==
    (last.op = "get_next_paper" /\ last.e \in LockWriteCalls)
      => (last.status = 200 /\ last.doi # "")

\* C12: clear_lock never raises: it blanks both lock cells of the row of the
\* key when the row is found and no ledger call raises; it leaves the data rows
\* as they are when no ledger is connected, the header has no doi column or
\* the key has no row; a ledger call that raises is swallowed and no cell
\* other than the two lock cells of that row ever changes.
C12_ReleaseNeverRaises ==
    [][last'.op = "clear_lock" =>
        \A p \in Procs :
          ClearLock(p, last'.doi, last'.e)
          => LET i == Find(sheet_rows, last'.doi)
                 blank == \/ ~worksheet[p]
                          \/ "doi" \notin Range(sheet_headers)
                          \/ i = 0
             IN  /\ last'.status = 200
                 /\ Len(sheet_rows') = Len(sheet_rows)
                 /\ blank => sheet_rows' = sheet_rows
                 /\ ( /\ ~blank
                      /\ {"lock_annotator", "lock_timestamp"} \subseteq Range(sheet_headers)
                      /\ last'.e = "none" )
                    => sheet_rows' = [sheet_rows EXCEPT ![i].lock_annotator = "",
                                                         ![i].lock_timestamp = <<>>]
                 /\ \A j \in DOMAIN sheet_rows :
                       IF j = i
                       THEN sheet_rows'[j] \in
                              {[sheet_rows[j] EXCEPT !.lock_annotator = a, !.lock_timestamp = t] :
                                 a \in {"", sheet_rows[j].lock_annotator},
                                 t \in {<<>>, sheet_rows[j].lock_timestamp}}
                       ELSE sheet_rows'[j] = sheet_rows[j]]_vars

\* alice's lease on k2, in the second row, was released; her annotation row stays
C12_Witness ==
    /\ last.op = "clear_lock" /\ last.doi = "k2" /\ last.e = "none"
    /\ last.held = <<"alice", <<0>>>>
    /\ Len(sheet_rows) = 2
    /\ sheet_rows[1].doi = "k1" /\ sheet_rows[1].lock_annotator = "alice"
    /\ sheet_rows[2] = Row("k2", "d1", "alice", "", <<>>, EmptyAnn)

\* the cells of a row other than its two lock cells
Data(r) == [doi |-> r.doi, title |-> r.title, dataset |-> r.dataset,
            annotator |-> r.annotator, ann |-> r.ann]

\* C13: when set_lock succeeds and a row carried the holder's name in its
\* lock_annotator cell, that row is deleted if its annotator cell is empty (the
\* other rows stay, in order, with their data); otherwise it stays where it is
\* with every cell other than the two lock cells as before, and both lock cells
\* blank unless it is the row of the new key. Afterwards no row of the previous
\* key names the holder in lock_annotator, unless the previous key is the new key.
C13_PreviousLease ==
    [][(last'.op = "set_lock" /\ last'.status = 200 /\ last'.held[1] # 0) =>
        \A annotator \in Annotators :
          set_lock("p1", last'.doi, annotator, last'.dataset, last'.e)
          => LET old == last'.held[1]
                 prev == sheet_rows[old]
                 kept == DeleteRow(sheet_rows, old)
             IN  /\ prev.annotator = ""
                      => /\ Len(sheet_rows') \in {Len(kept), Len(kept) + 1}
                         /\ \A j \in DOMAIN kept : Data(sheet_rows'[j]) = Data(kept[j])
                 /\ prev.annotator # ""
                      => /\ Len(sheet_rows') >= Len(sheet_rows)
                         /\ Data(sheet_rows'[old]) = Data(prev)
                         /\ prev.doi # last'.doi
                              => /\ sheet_rows'[old].lock_annotator = ""
                                 /\ sheet_rows'[old].lock_timestamp = <<>>
                 /\ prev.doi # last'.doi
                      => \A j \in DOMAIN sheet_rows' :
                            sheet_rows'[j].doi = prev.doi
                              => sheet_rows'[j].lock_annotator # annotator]_vars

\* alice's placeholder in row 1 was deleted, and the row of k2, second before,
\* is the only row and carries her lease
C13_Witness ==
    /\ last.op = "set_lock" /\ last.status = 200 /\ last.doi = "k2"
    /\ last.held = <<1, 2>>
    /\ sheet_rows = <<Row("k2", "d1", "", "alice", <<now>>, EmptyAnn)>>

\* C14: after set_lock(doi, annotator) succeeds the ledger has a row of doi
\* whose lock cells are (annotator, now), and every row of another key that
\* names the annotator in lock_annotator was in the ledger, as it is, before.
C14_LandsOnTargetRow ==
    [][(last'.op = "set_lock" /\ last'.status = 200) =>
        \A annotator \in Annotators :
          set_lock("p1", last'.doi, annotator, last'.dataset, last'.e)
          => /\ \E j \in DOMAIN sheet_rows' :
                   /\ sheet_rows'[j].doi = last'.doi
                   /\ sheet_rows'[j].lock_annotator = annotator
                   /\ sheet_rows'[j].lock_timestamp = <<now>>
             /\ \A j \in DOMAIN sheet_rows' :
                   (sheet_rows'[j].doi # last'.doi
                      /\ sheet_rows'[j].lock_annotator = annotator)
                   => \E i \in DOMAIN sheet_rows : sheet_rows[i] = sheet_rows'[j]]_vars

\* the lines of the corpus file that carry key k
Occurrences(k) ==
    {i \in DOMAIN dataset_file : dataset_file[i].kind = "object" /\ dataset_file[i].doi = k}

\* C15: after index_dataset_if_needed, every key that a parseable line of the
\* corpus carries has its entry in papers_index and in doi_offsets, the byte
\* offset stored is the start of the first line with that key, and
\* get_paper_by_doi_from_file returns the record of that first line.
C15_FirstWinsRoundTrip ==
    (last.op = "index_dataset_if_needed" /\ last.e = "none")
      => \A k \in LineKeys :
           Occurrences(k) # {}
             => LET first == CHOOSE i \in Occurrences(k) : \A j \in Occurrences(k) : i <= j
                IN  /\ k \in DOMAIN db.tables.papers_index
                    /\ k \in DOMAIN db.tables.doi_offsets
                    /\ db.tables.papers_index[k].byte_offset = Offset(dataset_file, first)
                    /\ db.tables.doi_offsets[k] = Offset(dataset_file, first)
                    /\ paper_by_doi(k) = <<[doi |-> k, title |-> dataset_file[first].title]>>

\* C16: when an exception ends the scan of index_dataset_if_needed, the listing
\* and the offsets are what they were before the build, the search table is
\* empty, and the staleness check does not take the index for up to date.
C16_BuildIsTransactional ==
    [][(last'.op = "index_dataset_if_needed" /\ last'.detail = "rollback")
        => /\ db'.tables.papers_index = db.tables.papers_index
           /\ db'.tables.doi_offsets = db.tables.doi_offsets
           /\ db'.tables.paper_text_fts = <<>>
           /\ ~up_to_date(db')]_vars

\* C17: a build in which no read raises indexes every line that is a JSON
\* object with a key, whatever the other lines of the corpus are.
C17_MalformedLineNotFatal ==
    (last.op = "index_dataset_if_needed" /\ last.e = "none" /\ last.detail # "up to date")
      => \A i \in DOMAIN dataset_file :
           (dataset_file[i].kind = "object" /\ dataset_file[i].doi # "")
             => /\ dataset_file[i].doi \in DOMAIN db.tables.papers_index
                /\ dataset_file[i].doi \in DOMAIN db.tables.doi_offsets
                /\ \E j \in DOMAIN db.tables.paper_text_fts :
                      db.tables.paper_text_fts[j][1] = dataset_file[i].doi

\* C19: no Queue of a server process holds a key of the ANNOTATED_ITEMS of
\* that process.
C19_QueueHoldsNoAnnotatedKey ==
    \A p \in Procs : \A d \in DOMAIN DATASET_QUEUES[p] :
        Range(DATASET_QUEUES[p][d]) \cap ANNOTATED_ITEMS[p] = {}

\* C18: the Queue load_dataset builds for a corpus holds no key of
\* ANNOTATED_ITEMS, every index key of INCOMPLETE_ANNOTATIONS (the resume part)
\* and every index key that is in neither set (the fresh part), each once and
\* nothing else; with prioritize_incomplete the resume part comes first, in
\* the order of the index listing, and the fresh part follows in some order.
C18_QueueConstruction ==
    [][last'.op = "load_dataset" =>
        \A dataset \in AVAILABLE_DATASETS, pr \in BOOLEAN :
          load_dataset("p1", dataset, pr)
          => LET q == DATASET_QUEUES'["p1"][dataset]
                 listing == papers_index[dataset]
                 done == ANNOTATED_ITEMS["p1"]
                 resume == Range(listing) \cap INCOMPLETE_ANNOTATIONS["p1"]
                 fresh == Range(listing) \ (done \cup INCOMPLETE_ANNOTATIONS["p1"])
                 n == Cardinality(resume)
             IN  /\ Range(q) \cap done = {}
                 /\ Range(q) = resume \cup fresh
                 /\ \A i, j \in DOMAIN q : q[i] = q[j] => i = j
                 /\ pr => /\ {q[i] : i \in 1..n} = resume
                          /\ \A i, j \in 1..n :
                                i < j => Pos(listing, q[i]) < Pos(listing, q[j])
                          /\ {q[i] : i \in (n + 1)..Len(q)} = fresh]_vars

\* k1 is complete and k3 partial: the Queue of d1 resumes k3 before the fresh
\* k2, which the index lists first
C18_Witness ==
    /\ last.op = "load_dataset"
    /\ ANNOTATED_ITEMS["p1"] = {"k1"} /\ INCOMPLETE_ANNOTATIONS["p1"] = {"k3"}
    /\ QueueOf("p1", "d1") = <<"k3", "k2">>

\* key k may be given to the annotator: it is not complete, not the excluded
\* key, no row of k carries a live lease of another annotator, it matches the
\* filter if the corpus has one, and it has a PDF if one is required
Fits(p, dataset, k, annotator, pdf_required, skip_doi) ==
    /\ k \notin ANNOTATED_ITEMS[p]
    /\ skip_doi # "" => k # skip_doi
    /\ ~\E i \in DOMAIN sheet_rows, h \in Annotators \ {annotator} :
           sheet_rows[i].doi = k /\ ActiveLeaseOf(sheet_rows[i], h)
    /\ dataset \in DOMAIN ACTIVE_FILTERS[p] => k \in ACTIVE_FILTERS[p][dataset]
    /\ pdf_required => HasPdf(k)

C21_ColumnsOnlyAppended ==
    [][/\ \A i \in DOMAIN sheet_headers :
             i \in DOMAIN sheet_headers' /\ sheet_headers'[i] = sheet_headers[i]
       /\ \A t \in Threads :
             (inflight[t].op = "submit_annotation" /\ inflight'[t] = Idle)
               => Range(BaseHeaders \o inflight[t].annotations.order)
                     \subseteq Range(sheet_headers')]_vars

\* C22: a header row that is not empty has the columns doi, title, dataset,
\* annotator, lock_annotator and lock_timestamp.
C22_MandatoryColumns ==
    sheet_headers # <<>>
      => Range(BaseHeaders \o LockHeaders) \subseteq Range(sheet_headers)

\* C23: set_filter with an empty or blank query leaves the corpus without a
\* stored filter, set_filter with any other query leaves it with the result of
\* the search for that query, and the filters of the other corpora stay as
\* they were.
C23_EmptyQueryClears ==
    [][last'.op = "set_filter" =>
          LET d == last'.dataset
              q == last'.query
          IN /\ q \in {"", " "} => d \notin DOMAIN ACTIVE_FILTERS'["p1"]
             /\ q \notin {"", " "} =>
                   /\ d \in DOMAIN ACTIVE_FILTERS'["p1"]
                   /\ \E t \in Templates, b \in BOOLEAN :
                         ACTIVE_FILTERS'["p1"][d] =
                            search_papers_by_keyword(d, final_fts_query(q, t), b)
             /\ \A o \in AVAILABLE_DATASETS \ {d} :
                   /\ o \in DOMAIN ACTIVE_FILTERS'["p1"] <=> o \in DOMAIN ACTIVE_FILTERS["p1"]
                   /\ o \in DOMAIN ACTIVE_FILTERS["p1"]
                        => ACTIVE_FILTERS'["p1"][o] = ACTIVE_FILTERS["p1"][o]]_vars

C23_Witness ==
    /\ last.op = "set_filter" /\ last.query = " " /\ last.dataset = "d1"
    /\ "d1" \notin DOMAIN ACTIVE_FILTERS["p1"]
    /\ "d2" \in DOMAIN ACTIVE_FILTERS["p1"] /\ ACTIVE_FILTERS["p1"]["d2"] = {"k1"}

\* C24: a set_filter whose search was rejected by the engine, or found no
\* index database, answers success and stores an empty match set.
C24_RejectedQueryIsEmpty ==
    [][(last'.op = "set_filter" /\ last'.e \in {"sqlite3.Error", "no database"})
          => /\ last'.status = 200 /\ last'.detail = "success"
             /\ last'.dataset \in DOMAIN ACTIVE_FILTERS'["p1"]
             /\ ACTIVE_FILTERS'["p1"][last'.dataset] = {}]_vars

C24_Witness ==
    /\ last.op = "set_filter" /\ last.e = "sqlite3.Error" /\ last.query = "\""
    /\ last.status = 200 /\ last.dataset = "d1"
    /\ "d1" \in DOMAIN ACTIVE_FILTERS["p1"] /\ ACTIVE_FILTERS["p1"]["d1"] = {}

\* C25: a get_next_paper returns a key whose row carries a running lease of
\* another holder only if it had read the ledger before that lease was
\* written; two overlapping calls of different holders can both return k1.
C25_RaceOnlyThroughOverlap ==
    [][(last'.op = "get_next_paper" /\ last'.status = 200)
          => \A t \in Threads :
                ( /\ inflight[t].op = "get_next_paper" /\ inflight'[t] = Idle
                  /\ \E i \in DOMAIN sheet_rows, h \in Annotators \ {inflight[t].annotator} :
                        /\ sheet_rows[i].doi = last'.doi
                        /\ ActiveLeaseOf(sheet_rows[i], h) )
                => \A i \in DOMAIN inflight[t].rows, h \in Annotators \ {inflight[t].annotator} :
                      inflight[t].rows[i].doi = last'.doi
                        => ~ActiveLeaseOf(inflight[t].rows[i], h)]_vars

C25_Witness ==
    /\ last.op = "get_next_paper" /\ last.status = 200 /\ last.doi = "k1"
    /\ last.held = <<"alice", <<0>>>>
    /\ LockCells(sheet_rows, "k1") = <<"bob", <<0>>>>
    /\ Len(sheet_rows) = 1

\* C26: a running lease of holder h on a key does not make the key unavailable
\* to h, and a get_next_paper that returns to h a key whose row carries h's
\* running lease sets the lock timestamp of that row to the current time and
\* adds no row.
C26_ImplicitRenewal ==
    [][/\ \A h \in Annotators, i \in DOMAIN sheet_rows :
             (ActiveLeaseOf(sheet_rows[i], h) /\ sheet_rows[i].doi \notin ANNOTATED_ITEMS["p1"])
                => sheet_rows[i].doi \notin unavailable_dois("p1", sheet_rows, h, "")
       /\ (last'.op = "get_next_paper" /\ last'.status = 200 /\ nticks' = nticks)
             => LET i == Find(sheet_rows, last'.doi)
                    h == LockCells(sheet_rows', last'.doi)[1]
                IN  (i # 0 /\ ActiveLeaseOf(sheet_rows[i], h))
                       => /\ Len(sheet_rows') = Len(sheet_rows)
                          /\ sheet_rows'[i].doi = last'.doi
                          /\ sheet_rows'[i].lock_annotator = h
                          /\ sheet_rows'[i].lock_timestamp = <<now>>]_vars

C26_Witness ==
    /\ last.op = "get_next_paper" /\ last.status = 200 /\ last.doi = "k1"
    /\ last.held = <<"alice", <<0>>>>
    /\ LockCells(sheet_rows, "k1") = <<"alice", <<Instant(1)>>>>
    /\ Len(sheet_rows) = 1

\* C27: index_dataset_if_needed leaves the index as it is exactly when the
\* database file exists, its listing has a row and its mtime is later than the
\* corpus file's; in every other case (no file, no row, an mtime equal or
\* earlier) it runs the build, and a build that ends with the commit holds the
\* scan of the whole corpus.
C27_StalenessRule ==
    [][last'.op = "index_dataset_if_needed" =>
          LET fresh == /\ db.exists
                       /\ Cardinality(DOMAIN db.tables.papers_index) >= 1
                       /\ db.mtime = "newer"
          IN  /\ fresh <=> last'.detail = "up to date"
              /\ fresh => db' = db
              /\ ~fresh =>
                    /\ last'.detail \in {"commit", "rollback"}
                    /\ db'.exists
                    /\ last'.detail = "commit"
                          => db'.tables = scan(dataset_file, 1, EmptyTables, 0).tables]_vars

\* a build ran on an index that had rows and the mtime of the corpus
C27_Witness ==
    /\ last.op = "index_dataset_if_needed" /\ last.detail = "commit"
    /\ last.queue = <<"equal", "rows">>
    /\ Cardinality(DOMAIN db.tables.papers_index) = 2

\* C28: a get_next_paper whose fetch of the candidate's record fails answers
\* 500 and leaves the data rows of the ledger, the queues and the completed
\* set as they were.
C28_FetchFailureWritesNoLease ==
    [][(last'.op = "get_next_paper" /\ last'.detail = "Could not retrieve full data")
          => /\ last'.status = 500
             /\ sheet_rows' = sheet_rows
             /\ DATASET_QUEUES' = DATASET_QUEUES
             /\ ANNOTATED_ITEMS' = ANNOTATED_ITEMS]_vars

\* the fetch failed for k1, the only entry of the queue, on a ledger without rows
C28_Witness ==
    /\ last.op = "get_next_paper" /\ last.detail = "Could not retrieve full data"
    /\ last.status = 500
    /\ "d1" \in DOMAIN DATASET_QUEUES["p1"] /\ DATASET_QUEUES["p1"]["d1"] = <<"k1">>
    /\ sheet_rows = <<>>
    /\ sheet_headers # <<>>

\* C29: when no request is being served, the Queue of a loaded corpus holds
\* every key that has not been submitted exactly once and no submitted key.
C29_QueueKeysKept ==
    (inflight = NoRequests /\ "d1" \in DOMAIN DATASET_QUEUES["p1"])
      => LET q == DATASET_QUEUES["p1"]["d1"]
         IN  /\ \A k \in Range(papers_index["d1"]) \ ANNOTATED_ITEMS["p1"] :
                   Cardinality({i \in DOMAIN q : q[i] = k}) = 1
             /\ \A k \in ANNOTATED_ITEMS["p1"] : k \notin Range(q)

\* C30: the status is 'starting' as long as the startup task has not
\* finished; when it has finished, on either path, the ready event is set;
\* with the event set the status is 'error' if and only if the task recorded
\* an exception and 'ready' otherwise; a status other than 'starting' is
\* never followed by 'starting'.
C30_ReadinessSignal ==
    [][/\ startup'.pc # "finished" => app_status(startup') = "starting"
       /\ startup'.pc = "finished" => startup'.ready_event
       /\ startup'.ready_event =>
             /\ app_status(startup') = "error" <=> startup'.startup_error # "None"
             /\ app_status(startup') = "ready" <=> startup'.startup_error = "None"
       /\ app_status(startup) # "starting" => app_status(startup') # "starting"
       /\ last'.op = "get_app_status" /\ last' # last
             => last'.detail = app_status(startup)]_vars

\* C31: a load_dataset answers success also when it leaves the Queue empty,
\* and for a corpus loaded with an empty Queue get_next_paper refuses with a
\* status or detail other than the one it has for a corpus never loaded.
C31_EmptyIsNotUnloaded ==
    /\ last.op = "load_dataset" => last.status = 200
    /\ \A d \in AVAILABLE_DATASETS :
          (d \in DOMAIN DATASET_QUEUES["p1"] /\ DATASET_QUEUES["p1"][d] = <<>>)
            => /\ queue_refusal(DATASET_QUEUES["p1"], d) # <<>>
               /\ queue_refusal(DATASET_QUEUES["p1"], d)
                     # queue_refusal(Del(DATASET_QUEUES["p1"], d), d)

\* C32: the ledger never holds two data rows with the same natural key.
C32_OneRowPerKey ==
    \A k \in Dois : Cardinality({i \in DOMAIN sheet_rows : sheet_rows[i].doi = k}) <= 1

\* C33: a running lease of holder a on a key stays on the key's row through a
\* skip_paper for that key (the request names no holder, so any session sends
\* it), through a submit_annotation for that key by another annotator, and
\* through a set_lock that gives the key to another holder.
C33_LeaseStableAgainstOthers ==
    [][(last'.op \in {"skip_paper", "submit_annotation", "set_lock"} /\ nticks' = nticks)
          => \A a \in Annotators :
                LET i == Find(sheet_rows, last'.doi)
                    j == Find(sheet_rows', last'.doi)
                IN  ( /\ i # 0
                      /\ ActiveLeaseOf(sheet_rows[i], a)
                      /\ \/ last'.op = "skip_paper"
                         \/ /\ last'.op = "submit_annotation"
                            /\ j # 0 /\ sheet_rows'[j].annotator \in Annotators \ {a}
                         \/ /\ last'.op = "set_lock"
                            /\ j # 0 /\ sheet_rows'[j].lock_annotator \in Annotators \ {a} )
                    => /\ j # 0
                       /\ sheet_rows'[j].lock_annotator = a
                       /\ sheet_rows'[j].lock_timestamp = sheet_rows[i].lock_timestamp]_vars

\* C34: no holder has a running lease on more than one row of the ledger.
C34_OneLeasePerHolder ==
    \A h \in Annotators :
       Cardinality({i \in DOMAIN sheet_rows : ActiveLeaseOf(sheet_rows[i], h)}) <= 1

\* C35: in every row of the ledger the two lock cells are both set or both
\* empty.
C35_LockFieldsArePair ==
    \A i \in DOMAIN sheet_rows :
       (sheet_rows[i].lock_annotator = "") <=> (sheet_rows[i].lock_timestamp = <<>>)

\* the annotation cells of row r are those of a submission of Filled
HoldsFilled(r) == r.ann = [f \in Fields |-> IF f = "f1" THEN "x" ELSE ""]

C39_QueueDrains ==
    [][/\ (/\ last'.op = "get_next_paper"
           /\ worksheet["p1"]
           /\ last'.dataset \in DOMAIN DATASET_QUEUES["p1"])
          => LET queue == DATASET_QUEUES["p1"][last'.dataset]
             IN  IF queue = <<>>
                 THEN last'.status = 404 /\ last'.detail = QueueEmptyDetail
                 ELSE /\ last'.status = 200
                      /\ last'.doi \in Range(queue)
                      /\ last'.doi \notin ANNOTATED_ITEMS["p1"]
       /\ last'.op = "submit_annotation"
          => LET queue == DATASET_QUEUES["p1"][last.dataset]
             IN  /\ last'.status = 200
                 /\ last'.doi = last.doi
                 /\ DATASET_QUEUES'["p1"][last.dataset]
                       = SelectSeq(queue, LAMBDA k : k # last.doi)
                 /\ Len(DATASET_QUEUES'["p1"][last.dataset]) = Len(queue) - 1
                 /\ last.doi \in ANNOTATED_ITEMS'["p1"]]_vars
====
